---- MODULE Spec2Model ----
(***************************************************************************)
(* ShelfSignals Digital Receipt subsystem (docs/js/receipt.js), with the   *)
(* search state (docs/js/search.js) and the palette preference             *)
(* (docs/js/colors.js).                                                    *)
(*                                                                         *)
(* JavaScript strings are TLA+ strings; a character is a string of length  *)
(* one.  A JavaScript value is a record [t, n, s, xs]:                     *)
(*   t  - the type tag ("null", "undefined", "boolean", "number",          *)
(*        "string", "array", "object", "function", "symbol")               *)
(*   n  - the integer payload of a boolean (0/1) or of a finite number     *)
(*   s  - the text of a string; for a number, "" when it is the finite     *)
(*        integer n and otherwise the name of the special value ("NaN",    *)
(*        "Infinity", "-Infinity", "-0")                                   *)
(*   xs - the members of an array or object, in insertion order, each a    *)
(*        record [k |-> key, v |-> value] (k = "" for array elements)      *)
(***************************************************************************)
EXTENDS Integers, Sequences, FiniteSets, TLC

(***************************************************************************)
(* Characters                                                              *)
(***************************************************************************)

\* code units 0..31; a control character that has no escape in a string
\* literal is written as the character U+FF80 + code
Controls == "ﾀﾁﾂﾃﾄﾅﾆﾇﾈ\t\nﾋ\f\rﾎﾏﾐﾑﾒﾓﾔﾕﾖﾗﾘﾙﾚﾛﾜﾝﾞﾟ"

\* code units 32..95
AsciiLo == " !\"#$%&'()*+,-./0123456789:;<=>?@ABCDEFGHIJKLMNOPQRSTUVWXYZ[\\]^_"

\* code unit 96, written as U+FFE0 (a string literal cannot hold the backtick)
Backtick == "￠"

\* code units 97..126
AsciiHi == "abcdefghijklmnopqrstuvwxyz{|}~"

\* code unit 127, written as U+FFDF
Delete == "￟"

\* code units 0..127 in code order
Ascii == Controls \o AsciiLo \o Backtick \o AsciiHi \o Delete

CharAt(s, i) == SubSeq(s, i, i)

\* U+00E9, written as U+FFE9, and U+FFFD (the decoder's replacement
\* character); the stand-ins are characters a stored state keeps unchanged
EAcute == "￩"

Replacement == "�"

Chars == {CharAt(Ascii, i) : i \in 1..Len(Ascii)} \cup {EAcute, Replacement}

\* UTF-16 code unit of a character
CodeOf ==
  [c \in Chars |->
     IF c = EAcute THEN 233
     ELSE IF c = Replacement THEN 65533
     ELSE (CHOOSE i \in 1..Len(Ascii) : CharAt(Ascii, i) = c) - 1]

Min(a, b) == IF a < b THEN a ELSE b

\* concatenation of the strings f[lo..hi], by halving
RECURSIVE Join(_, _, _)
Join(f, lo, hi) ==
  IF lo > hi THEN ""
  ELSE IF lo = hi THEN f[lo]
  ELSE LET mid == (lo + hi) \div 2
       IN  Join(f, lo, mid) \o Join(f, mid + 1, hi)

\* Array.prototype.join(','), on a sequence of strings
JoinComma(f) ==
  Join([i \in 1..Len(f) |-> IF i = 1 THEN f[i] ELSE "," \o f[i]], 1, Len(f))

\* comparison of strings by code units, as Array.prototype.sort() without comparator
StrLess(a, b) ==
  \E i \in 1..(Min(Len(a), Len(b)) + 1) :
     /\ SubSeq(a, 1, i - 1) = SubSeq(b, 1, i - 1)
     /\ \/ i > Len(a) /\ i <= Len(b)
        \/ /\ i <= Len(a)
           /\ i <= Len(b)
           /\ CodeOf[CharAt(a, i)] < CodeOf[CharAt(b, i)]

DecDigits == "0123456789"

HexDigits == "0123456789abcdef"

RECURSIVE NatToString(_)
NatToString(k) ==
  IF k < 10 THEN CharAt(DecDigits, k + 1)
  ELSE NatToString(k \div 10) \o CharAt(DecDigits, (k % 10) + 1)

\* String.prototype.toUpperCase, on the letters a-z
ToUpperCase(s) ==
  Join([i \in 1..Len(s) |->
          IF CodeOf[CharAt(s, i)] \in 97..122
          THEN CharAt(AsciiLo, CodeOf[CharAt(s, i)] - 63)
          ELSE CharAt(s, i)], 1, Len(s))

(***************************************************************************)
(* JavaScript values                                                       *)
(***************************************************************************)

JV(t, n, s, xs) == [t |-> t, n |-> n, s |-> s, xs |-> xs]

Null == JV("null", 0, "", <<>>)

Undefined == JV("undefined", 0, "", <<>>)

Bool(b) == JV("boolean", IF b THEN 1 ELSE 0, "", <<>>)

Num(k) == JV("number", k, "", <<>>)

NaN == JV("number", 0, "NaN", <<>>)

Infinity == JV("number", 0, "Infinity", <<>>)

NegInfinity == JV("number", 0, "-Infinity", <<>>)

NegZero == JV("number", 0, "-0", <<>>)

Str(s) == JV("string", 0, s, <<>>)

Member(k, v) == [k |-> k, v |-> v]

Arr(vs) == JV("array", 0, "", [i \in 1..Len(vs) |-> Member("", vs[i])])

\* ms: sequence of members with pairwise different keys, in insertion order
Obj(ms) == JV("object", 0, "", ms)

Fn == JV("function", 0, "", <<>>)

Sym == JV("symbol", 0, "", <<>>)

Elems(a) == [i \in 1..Len(a.xs) |-> a.xs[i].v]

HasKey(o, k) == o.t = "object" /\ \E i \in 1..Len(o.xs) : o.xs[i].k = k

\* property read o[k] on a value that is not null/undefined
Get(o, k) ==
  IF HasKey(o, k)
  THEN o.xs[CHOOSE i \in 1..Len(o.xs) : o.xs[i].k = k].v
  ELSE Undefined

\* ToBoolean
Truthy(v) ==
  CASE v.t \in {"null", "undefined"} -> FALSE
    [] v.t = "boolean" -> v.n = 1
    [] v.t = "number" -> IF v.s = "" THEN v.n # 0 ELSE v.s \in {"Infinity", "-Infinity"}
    [] v.t = "string" -> v.s # ""
    [] OTHER -> TRUE

\* property assignment o[k] = v: replaces in place, or appends a new key
SetKey(o, k, v) ==
  IF HasKey(o, k)
  THEN [o EXCEPT !.xs = [i \in 1..Len(o.xs) |->
                            IF o.xs[i].k = k THEN Member(k, v) ELSE o.xs[i]]]
  ELSE [o EXCEPT !.xs = Append(o.xs, Member(k, v))]

RECURSIVE FilterMembers(_, _)
FilterMembers(ms, drop) ==
  IF ms = <<>> THEN <<>>
  ELSE IF Head(ms).k \in drop THEN FilterMembers(Tail(ms), drop)
  ELSE <<Head(ms)>> \o FilterMembers(Tail(ms), drop)

\* the object with the own properties of o except those named in drop
WithoutKeys(o, drop) == Obj(FilterMembers(o.xs, drop))

(***************************************************************************)
(* Canonical Serializer                                                    *)
(***************************************************************************)

\* String(obj) for a finite number
NumberToString(v) ==
  IF v.s \in {"NaN", "Infinity", "-Infinity"} THEN v.s
  ELSE IF v.s = "-0" THEN "0"
  ELSE IF v.n < 0 THEN "-" \o NatToString(0 - v.n)
  ELSE NatToString(v.n)

\* !isNaN(obj) in the place of isFinite(obj)
IsNotNaN(v) == v.s # "NaN"

IsFinite(v) == v.s \in {"", "-0"}

\* the string put between quotes as it is
EscapeCharRaw(c) == c

EscapeChar(c) ==
  CASE c = "\"" -> "\\\""
    [] c = "\\" -> "\\\\"
    [] c = "\n" -> "\\n"
    [] c = "\t" -> "\\t"
    [] c = "\f" -> "\\f"
    [] c = "\r" -> "\\r"
    [] CodeOf[c] = 8 -> "\\b"
    [] CodeOf[c] < 32 /\ CodeOf[c] \notin {8, 9, 10, 12, 13} ->
         "\\u00" \o CharAt(HexDigits, (CodeOf[c] \div 16) + 1)
                  \o CharAt(HexDigits, (CodeOf[c] % 16) + 1)
    [] OTHER -> c

\* JSON.stringify(s) for a string s
QuoteString(s) ==
  "\"" \o Join([i \in 1..Len(s) |-> EscapeChar(CharAt(s, i))], 1, Len(s)) \o "\""

\* Object.keys(obj) without the sort: the keys in insertion order
InsertionKeys(o) == [i \in 1..Len(o.xs) |-> o.xs[i].k]

\* Object.keys(obj).sort(): the keys in ascending code-unit order
SortedKeys(o) ==
  LET keys == [i \in 1..Len(o.xs) |-> o.xs[i].k]
      rank(k) == 1 + Cardinality({j \in 1..Len(keys) : StrLess(keys[j], k)})
  IN  [r \in 1..Len(keys) |-> keys[CHOOSE i \in 1..Len(keys) : rank(keys[i]) = r]]

\* the serializer if its first test were `!obj`: every falsy value is null
RECURSIVE canonicalStringifyFalsy(_)
canonicalStringifyFalsy(obj) ==
  CASE ~Truthy(obj) -> "null"
    [] obj.t = "boolean" -> "true"
    [] obj.t = "number" -> IF ~IsFinite(obj) THEN "null" ELSE NumberToString(obj)
    [] obj.t = "string" -> QuoteString(obj.s)
    [] obj.t = "array" ->
         "[" \o JoinComma([i \in 1..Len(obj.xs) |-> canonicalStringifyFalsy(obj.xs[i].v)]) \o "]"
    [] obj.t = "object" ->
         LET keys == SortedKeys(obj)
         IN  "{" \o JoinComma([i \in 1..Len(keys) |->
                      QuoteString(keys[i]) \o ":" \o canonicalStringifyFalsy(Get(obj, keys[i]))])
             \o "}"
    [] OTHER -> "null"

RECURSIVE canonicalStringify(_)
canonicalStringify(obj) ==
  CASE obj.t \in {"null", "undefined"} -> "null"
    [] obj.t = "boolean" -> IF obj.n = 1 THEN "true" ELSE "false"
    [] obj.t = "number" -> IF ~IsFinite(obj) THEN "null" ELSE NumberToString(obj)
    [] obj.t = "string" -> QuoteString(obj.s)
    [] obj.t = "array" ->
         "[" \o JoinComma([i \in 1..Len(obj.xs) |-> canonicalStringify(obj.xs[i].v)]) \o "]"
    [] obj.t = "object" ->
         LET keys == SortedKeys(obj)
         IN  "{" \o JoinComma([i \in 1..Len(keys) |->
                      QuoteString(keys[i]) \o ":" \o canonicalStringify(Get(obj, keys[i]))])
             \o "}"
    [] OTHER -> "null"

(***************************************************************************)
(* Content Hasher                                                          *)
(***************************************************************************)

\* concatenation of the sequences f[lo..hi], by halving
RECURSIVE Flatten(_, _, _)
Flatten(f, lo, hi) ==
  IF lo > hi THEN <<>>
  ELSE IF lo = hi THEN f[lo]
  ELSE LET mid == (lo + hi) \div 2
       IN  Flatten(f, lo, mid) \o Flatten(f, mid + 1, hi)

\* UTF-8 bytes of one character (code units up to U+FFFF, no surrogates)
Utf8OfChar(c) ==
  LET u == CodeOf[c]
  IN  IF u < 128 THEN <<u>>
      ELSE IF u < 2048 THEN <<192 + (u \div 64), 128 + (u % 64)>>
      ELSE <<224 + (u \div 4096), 128 + ((u \div 64) % 64), 128 + (u % 64)>>

\* new TextEncoder().encode(text)
Utf8Encode(text) ==
  Flatten([i \in 1..Len(text) |-> Utf8OfChar(CharAt(text, i))], 1, Len(text))

\* b.toString(16).padStart(2, '0')
HexOfByte(b) == CharAt(HexDigits, (b \div 16) + 1) \o CharAt(HexDigits, (b % 16) + 1)

\* hashArray.map(b => b.toString(16).padStart(2, '0')).join('')
HexOfBytes(bytes) == Join([i \in 1..Len(bytes) |-> HexOfByte(bytes[i])], 1, Len(bytes))

\* crypto.subtle.digest('SHA-256', data).  SHA-256 is taken to be free of
\* collisions: the digest of a byte sequence is modelled by the byte
\* sequence itself, so two inputs have the same digest exactly when they
\* are equal.  (The hex rendering is therefore 2 characters per input byte
\* rather than 64 characters.)
Sha256(data) == data

\* hashCanonicalJSON, from the canonical text on (the awaited digest is Sha256)
HashOfText(text) == HexOfBytes(Sha256(Utf8Encode(text)))

hashCanonicalJSON(obj) == HashOfText(canonicalStringify(obj))

(***************************************************************************)
(* Identifier Generator                                                    *)
(***************************************************************************)

IdChars == "ABCDEFGHIJKLMNOPQRSTUVWXYZ0123456789"

Segments == 3

SegmentLength == 4

\* Math.random() returns r / RandDen for a numerator r in 0..RandDen-1
RandDen == 1000

RandomOutcomes == 0..(RandDen - 1)

\* chars.charAt(Math.floor(Math.random() * chars.length)); charAt of an
\* index outside the string is ''
\* Math.round in the place of Math.floor
PickCharRounded(r) ==
  LET idx == (r * Len(IdChars) + RandDen \div 2) \div RandDen
  IN  IF idx + 1 \in 1..Len(IdChars) THEN CharAt(IdChars, idx + 1) ELSE ""

PickChar(r) ==
  LET idx == (r * Len(IdChars)) \div RandDen
  IN  IF idx + 1 \in 1..Len(IdChars) THEN CharAt(IdChars, idx + 1) ELSE ""

\* rand: the Segments * SegmentLength successive outcomes of Math.random()
generateReceiptID(rand) ==
  LET segment(i) ==
        Join([j \in 1..SegmentLength |-> PickChar(rand[(i - 1) * SegmentLength + j])],
             1, SegmentLength)
      parts == [i \in 1..Segments |-> IF i = 1 THEN segment(i) ELSE "-" \o segment(i)]
  IN  "SS-" \o Join(parts, 1, Segments)

(***************************************************************************)
(* Receipt Builder and Receipt Verifier: pure parts                        *)
(***************************************************************************)

\* a destructuring default: used when the property is absent or undefined
Default(v, d) == IF v.t = "undefined" THEN d ELSE v

\* items.map is callable (items is an array) and reading item.id throws for
\* no element (no element is null or undefined)
ItemsMappable(items) ==
  /\ items.t = "array"
  /\ \A i \in 1..Len(items.xs) : items.xs[i].v.t \notin {"null", "undefined"}

\* item => item.id || item
ItemIdOrItem(item) == IF Truthy(Get(item, "id")) THEN Get(item, "id") ELSE item

\* items.map(item => item.id || item)
MapItems(items) == Arr([i \in 1..Len(items.xs) |-> ItemIdOrItem(items.xs[i].v)])

SentinelNotComputed == "not-computed"

SentinelUnavailable == "unavailable"

\* the payload literal of createReceipt; options as passed by the caller
BuildPayload(options, createdAt, indexHash) ==
  Obj(<<Member("schema", Str("shelfsignals-receipt@1")),
        Member("createdAt", Str(createdAt)),
        Member("app", Obj(<<Member("name", Str("ShelfSignals")),
                            Member("channel", Str("preview")),
                            Member("version", Default(Get(options, "appVersion"), Str("v2.x")))>>)),
        Member("dataset", Obj(<<Member("name", Default(Get(options, "datasetName"),
                                                       Str("Allan Sekula Library"))),
                                Member("indexHash", Str(indexHash))>>)),
        Member("mode", Default(Get(options, "mode"), Str("shelf"))),
        Member("items", MapItems(Default(Get(options, "items"), Arr(<<>>)))),
        Member("filters", Default(Get(options, "filters"), Obj(<<>>)))>>)

\* the receipt literal of createReceipt: { ...payload, hash: {...}, receiptId }
StampReceipt(payload, hashValue, receiptId) ==
  SetKey(SetKey(payload, "hash", Obj(<<Member("alg", Str("sha256")),
                                       Member("value", Str(hashValue))>>)),
         "receiptId", Str(receiptId))

\* the guard if it stopped at the hash object: !receipt || !receipt.hash
HashMissingNoValue(receipt) ==
  \/ ~Truthy(receipt)
  \/ ~Truthy(Get(receipt, "hash"))

\* the guard of verifyReceipt: !receipt || !receipt.hash || !receipt.hash.value
HashMissing(receipt) ==
  \/ ~Truthy(receipt)
  \/ ~Truthy(Get(receipt, "hash"))
  \/ ~Truthy(Get(Get(receipt, "hash"), "value"))

\* the verifier if it removed only the hash before recomputing
VerifierPayloadKeepingId(receipt) == WithoutKeys(receipt, {"hash"})

\* const { hash, receiptId, ...payload } = receipt
VerifierPayload(receipt) == WithoutKeys(receipt, {"hash", "receiptId"})

ReasonMissing == "Missing hash"

ReasonVerified == "Hash verified"

ReasonMismatch == "Hash mismatch"

\* the result of verifyReceipt when the hash is missing
MissingResult ==
  [valid |-> FALSE, reason |-> ReasonMissing, computedHash |-> Undefined,
   providedHash |-> Undefined]

\* the comparison if it ignored the case of the hexadecimal digits
EqualsIgnoringCase(text, v) == v.t = "string" /\ ToUpperCase(v.s) = ToUpperCase(text)

\* computedHash === hash.value
StrictEqualsString(text, v) == v.t = "string" /\ v.s = text

\* the result of verifyReceipt once the digest is known
CompareResult(computedHash, provided) ==
  LET valid == StrictEqualsString(computedHash, provided)
  IN  [valid |-> valid,
       reason |-> IF valid THEN ReasonVerified ELSE ReasonMismatch,
       computedHash |-> Str(computedHash),
       providedHash |-> provided]

\* verifyReceipt run to completion on a candidate
VerifyOutcome(receipt) ==
  IF HashMissing(receipt) THEN MissingResult
  ELSE CompareResult(hashCanonicalJSON(VerifierPayload(receipt)),
                     Get(Get(receipt, "hash"), "value"))

(***************************************************************************)
(* Transport Codec: encoding                                               *)
(***************************************************************************)

\* values JSON.stringify leaves out of an object and renders as null in an array
Unserializable(v) == v.t \in {"undefined", "function"}

RECURSIVE KeepSerializable(_)
KeepSerializable(ms) ==
  IF ms = <<>> THEN <<>>
  ELSE IF Unserializable(Head(ms).v) THEN KeepSerializable(Tail(ms))
  ELSE <<Head(ms)>> \o KeepSerializable(Tail(ms))

\* JSON.stringify(v) for a value other than undefined or a function (for
\* which it returns undefined); object keys keep their insertion order
RECURSIVE JsonStringify(_)
JsonStringify(v) ==
  CASE v.t = "null" -> "null"
    [] v.t = "boolean" -> IF v.n = 1 THEN "true" ELSE "false"
    [] v.t = "number" -> IF ~IsFinite(v) THEN "null" ELSE NumberToString(v)
    [] v.t = "string" -> QuoteString(v.s)
    [] v.t = "array" ->
         "[" \o JoinComma([i \in 1..Len(v.xs) |->
                   IF Unserializable(v.xs[i].v) THEN "null" ELSE JsonStringify(v.xs[i].v)])
         \o "]"
    [] v.t = "object" ->
         LET ms == KeepSerializable(v.xs)
         IN  "{" \o JoinComma([i \in 1..Len(ms) |->
                      QuoteString(ms[i].k) \o ":" \o JsonStringify(ms[i].v)])
             \o "}"
    [] OTHER -> ""

Base64Alphabet == "ABCDEFGHIJKLMNOPQRSTUVWXYZabcdefghijklmnopqrstuvwxyz0123456789+/"

B64Char(k) == CharAt(Base64Alphabet, k + 1)

\* btoa on the binary string of the bytes: 3 bytes give 4 characters, a
\* final group of 1 or 2 bytes is padded with '='
Btoa(bytes) ==
  LET n == Len(bytes)
      groups == (n + 2) \div 3
      byte(i) == IF i <= n THEN bytes[i] ELSE 0
      group(g) ==
        LET b1 == byte(3 * g - 2)
            b2 == byte(3 * g - 1)
            b3 == byte(3 * g)
        IN  B64Char(b1 \div 4)
            \o B64Char((b1 % 4) * 16 + (b2 \div 16))
            \o (IF 3 * g - 1 <= n THEN B64Char((b2 % 16) * 4 + (b3 \div 64)) ELSE "=")
            \o (IF 3 * g <= n THEN B64Char(b3 % 64) ELSE "=")
  IN  Join([g \in 1..groups |-> group(g)], 1, groups)

\* String.prototype.replace with a global one-character pattern; an empty
\* replacement removes the character
ReplaceAll(text, from, to) ==
  Join([i \in 1..Len(text) |-> IF CharAt(text, i) = from THEN to ELSE CharAt(text, i)],
       1, Len(text))

\* the padding left in place
ToUrlSafeKeepingPad(base64) == ReplaceAll(ReplaceAll(base64, "+", "-"), "/", "_")

\* base64.replace(/\+/g, '-').replace(/\//g, '_').replace(/=/g, '')
ToUrlSafe(base64) == ReplaceAll(ReplaceAll(ReplaceAll(base64, "+", "-"), "/", "_"), "=", "")

\* the byte-to-text half of encodeReceiptToFragment
EncodeBytes(bytes) == ToUrlSafe(Btoa(bytes))

encodeReceiptToFragment(r) == EncodeBytes(Utf8Encode(JsonStringify(r)))

(***************************************************************************)
(* Transport Codec: decoding                                               *)
(***************************************************************************)

\* '='.repeat(4 - base64.length % 4) appended: four '=' after a whole group
PadAlways(base64) ==
  LET k == 4 - (Len(base64) % 4)
  IN  base64 \o Join([i \in 1..k |-> "="], 1, k)

\* '='.repeat((4 - base64.length % 4) % 4) appended
Pad(base64) ==
  LET k == (4 - (Len(base64) % 4)) % 4
  IN  base64 \o Join([i \in 1..k |-> "="], 1, k)

AsciiWhitespace == {" ", "\t", "\n", "\f", "\r"}

B64Index(c) == (CHOOSE i \in 1..Len(Base64Alphabet) : CharAt(Base64Alphabet, i) = c) - 1

IsB64Char(c) == \E i \in 1..Len(Base64Alphabet) : CharAt(Base64Alphabet, i) = c

\* atob (forgiving-base64 decode): whitespace is removed, up to two '=' are
\* removed from a length divisible by 4, a length of 1 modulo 4 or a
\* character outside the alphabet is an error, leftover bits are discarded
AtobData(padded) ==
  LET stripped == Join([i \in 1..Len(padded) |->
                          IF CharAt(padded, i) \in AsciiWhitespace THEN ""
                          ELSE CharAt(padded, i)], 1, Len(padded))
      n == Len(stripped)
      cut == IF n % 4 = 0 /\ n >= 2 /\ SubSeq(stripped, n - 1, n) = "==" THEN 2
             ELSE IF n % 4 = 0 /\ n >= 1 /\ CharAt(stripped, n) = "=" THEN 1
             ELSE 0
  IN  SubSeq(stripped, 1, n - cut)

AtobThrows(padded) ==
  LET data == AtobData(padded)
  IN  \/ Len(data) % 4 = 1
      \/ \E i \in 1..Len(data) : ~IsB64Char(CharAt(data, i))

\* the bytes atob yields (as char codes of its binary string)
AtobBytes(padded) ==
  LET data == AtobData(padded)
      n == (Len(data) * 6) \div 8
      six(j) == B64Index(CharAt(data, j))
      byte(i) ==
        LET g == (i - 1) \div 3
            r == (i - 1) % 3
        IN  CASE r = 0 -> six(4 * g + 1) * 4 + (six(4 * g + 2) \div 16)
              [] r = 1 -> (six(4 * g + 2) % 16) * 16 + (six(4 * g + 3) \div 4)
              [] r = 2 -> (six(4 * g + 3) % 4) * 64 + six(4 * g + 4)
  IN  [i \in 1..n |-> byte(i)]

\* fragment.replace(/-/g, '+').replace(/_/g, '/')
FromUrlSafe(fragment) == ReplaceAll(ReplaceAll(fragment, "-", "+"), "_", "/")

\* the text-to-byte half of decodeReceiptFromFragment
DecodeThrows(fragment) == AtobThrows(Pad(FromUrlSafe(fragment)))

DecodeBytes(fragment) == AtobBytes(Pad(FromUrlSafe(fragment)))

\* the character with a given code; a code above 127 other than those of
\* Chars has no value here and stops the evaluation
CharOfCode(u) == IF u < 128 THEN CharAt(Ascii, u + 1) ELSE CHOOSE c \in Chars : CodeOf[c] = u

\* new TextDecoder().decode(bytes): UTF-8, a leading byte order mark is
\* dropped, decoding never throws, and every maximal ill-formed part
\* becomes one U+FFFD.  The output of position i depends on at most the
\* three bytes before it.
Utf8Decode(bytes) ==
  LET n == Len(bytes)
      at(i) == IF i >= 1 /\ i <= n THEN bytes[i] ELSE 0 - 1
      cont(i) == at(i) \in 128..191
      \* how many bytes the sequence led by position i needs (0: not a lead)
      need(i) == IF at(i) \in 194..223 THEN 2
                 ELSE IF at(i) \in 224..239 THEN 3
                 ELSE IF at(i) \in 240..244 THEN 4
                 ELSE 0
      \* the second byte is in the range its lead byte allows
      second(i) ==
        CASE at(i - 1) = 224 -> at(i) \in 160..191
          [] at(i - 1) = 237 -> at(i) \in 128..159
          [] at(i - 1) = 240 -> at(i) \in 144..191
          [] at(i - 1) = 244 -> at(i) \in 128..143
          [] OTHER -> cont(i)
      \* position i continues a sequence begun 1, 2 or 3 bytes earlier
      consumed(i) ==
        \/ need(i - 1) >= 2 /\ second(i)
        \/ need(i - 2) >= 3 /\ second(i - 1) /\ cont(i)
        \/ need(i - 3) = 4 /\ second(i - 2) /\ cont(i - 1) /\ cont(i)
      complete(i) ==
        /\ need(i) >= 2
        /\ second(i + 1)
        /\ need(i) >= 3 => cont(i + 2)
        /\ need(i) = 4 => cont(i + 3)
      code(i) ==
        CASE need(i) = 2 -> (at(i) - 192) * 64 + (at(i + 1) - 128)
          [] need(i) = 3 -> (at(i) - 224) * 4096 + (at(i + 1) - 128) * 64 + (at(i + 2) - 128)
          [] need(i) = 4 -> (at(i) - 240) * 262144 + (at(i + 1) - 128) * 4096
                            + (at(i + 2) - 128) * 64 + (at(i + 3) - 128)
      bom == IF at(1) = 239 /\ at(2) = 187 /\ at(3) = 191 THEN 3 ELSE 0
      out(i) ==
        IF i <= bom THEN ""
        ELSE IF at(i) < 128 THEN CharOfCode(at(i))
        ELSE IF consumed(i) THEN ""
        ELSE IF complete(i) THEN CharOfCode(code(i))
        ELSE Replacement
  IN  Join([i \in 1..n |-> out(i)], 1, n)

(***************************************************************************)
(* JSON.parse                                                              *)
(*                                                                         *)
(* A parse result is [ok, v, next]: whether the text from position i on    *)
(* starts with a value, the value, and the position after it.  Numbers     *)
(* with a fraction or an exponent, and the escapes \b and \uXXXX, have no  *)
(* value in this model: reaching one stops the evaluation.                 *)
(***************************************************************************)

Unmodelled == CHOOSE u \in {} : TRUE

ParseFail == [ok |-> FALSE, v |-> Undefined, next |-> 0]

ParseOk(v, next) == [ok |-> TRUE, v |-> v, next |-> next]

JsonWhitespace == {" ", "\t", "\n", "\r"}

RECURSIVE SkipWs(_, _)
SkipWs(text, i) ==
  IF i <= Len(text) /\ CharAt(text, i) \in JsonWhitespace THEN SkipWs(text, i + 1) ELSE i

\* the number of consecutive backslashes that end just before position j
BackslashesBefore(text, j) ==
  CHOOSE r \in 0..(j - 1) :
    /\ \A m \in 1..r : CharAt(text, j - m) = "\\"
    /\ j - r - 1 >= 1 => CharAt(text, j - r - 1) # "\\"

\* the position of the quote that closes the string opened at position i (0: none)
ClosingQuote(text, i) ==
  LET qs == {j \in (i + 1)..Len(text) :
               CharAt(text, j) = "\"" /\ BackslashesBefore(SubSeq(text, i + 1, j), j - i) % 2 = 0}
  IN  IF qs = {} THEN 0 ELSE CHOOSE j \in qs : \A k \in qs : j <= k

IsControl(c) == CodeOf[c] < 32

EscapeLetters == {"\"", "\\", "/", "n", "t", "r", "f"}

\* the characters between the quotes: no raw control character, and every
\* backslash introduces an escape
RawStringOk(raw) ==
  \A k \in 1..Len(raw) :
    LET c == CharAt(raw, k)
        escaped == BackslashesBefore(raw, k) % 2 = 1
    IN  /\ ~IsControl(c)
        /\ escaped => (IF c \in {"b", "u"} THEN Unmodelled ELSE c \in EscapeLetters)
        /\ (c = "\\" /\ ~escaped) => k < Len(raw)

Unescape(raw) ==
  Join([k \in 1..Len(raw) |->
          LET c == CharAt(raw, k)
              escaped == BackslashesBefore(raw, k) % 2 = 1
          IN  IF ~escaped THEN (IF c = "\\" THEN "" ELSE c)
              ELSE CASE c = "n" -> "\n"
                     [] c = "t" -> "\t"
                     [] c = "r" -> "\r"
                     [] c = "f" -> "\f"
                     [] OTHER -> c],
       1, Len(raw))

\* a string token opened by the quote at position i
ParseString(text, i) ==
  LET j == ClosingQuote(text, i)
      raw == SubSeq(text, i + 1, j - 1)
  IN  IF j = 0 \/ ~RawStringOk(raw) THEN ParseFail
      ELSE ParseOk(Str(Unescape(raw)), j + 1)

IsDigit(c) == \E d \in 1..10 : CharAt(DecDigits, d) = c

DigitValue(c) == (CHOOSE d \in 1..10 : CharAt(DecDigits, d) = c) - 1

RECURSIVE DigitsEnd(_, _)
DigitsEnd(text, i) ==
  IF i <= Len(text) /\ IsDigit(CharAt(text, i)) THEN DigitsEnd(text, i + 1) ELSE i

RECURSIVE DigitsValue(_)
DigitsValue(ds) ==
  IF ds = "" THEN 0
  ELSE 10 * DigitsValue(SubSeq(ds, 1, Len(ds) - 1)) + DigitValue(CharAt(ds, Len(ds)))

\* a number token at position i: -? (0 | [1-9][0-9]*)
ParseNumber(text, i) ==
  LET neg == CharAt(text, i) = "-"
      d == IF neg THEN i + 1 ELSE i
      e == DigitsEnd(text, d)
      ds == SubSeq(text, d, e - 1)
      more == e <= Len(text) /\ CharAt(text, e) \in {".", "e", "E"}
  IN  IF e = d \/ (e - d > 1 /\ CharAt(text, d) = "0") THEN ParseFail
      ELSE IF more THEN Unmodelled
      ELSE IF neg /\ DigitsValue(ds) = 0 THEN ParseOk(NegZero, e)
      ELSE ParseOk(Num(IF neg THEN 0 - DigitsValue(ds) ELSE DigitsValue(ds)), e)

ParseLiteral(text, i, word, v) ==
  IF SubSeq(text, i, Min(Len(text), i + Len(word) - 1)) = word
  THEN ParseOk(v, i + Len(word))
  ELSE ParseFail

RECURSIVE ParseValue(_, _)
RECURSIVE ParseElements(_, _, _)
RECURSIVE ParseMembers(_, _, _)

\* the value that starts at position i (after optional whitespace)
ParseValue(text, i0) ==
  LET i == SkipWs(text, i0)
      c == IF i <= Len(text) THEN CharAt(text, i) ELSE ""
  IN  CASE c = "{" ->
             IF SkipWs(text, i + 1) <= Len(text) /\ CharAt(text, SkipWs(text, i + 1)) = "}"
             THEN ParseOk(Obj(<<>>), SkipWs(text, i + 1) + 1)
             ELSE ParseMembers(text, i + 1, Obj(<<>>))
        [] c = "[" ->
             IF SkipWs(text, i + 1) <= Len(text) /\ CharAt(text, SkipWs(text, i + 1)) = "]"
             THEN ParseOk(Arr(<<>>), SkipWs(text, i + 1) + 1)
             ELSE ParseElements(text, i + 1, <<>>)
        [] c = "\"" -> ParseString(text, i)
        [] c = "t" -> ParseLiteral(text, i, "true", Bool(TRUE))
        [] c = "f" -> ParseLiteral(text, i, "false", Bool(FALSE))
        [] c = "n" -> ParseLiteral(text, i, "null", Null)
        [] c = "-" \/ (c # "" /\ IsDigit(c)) -> ParseNumber(text, i)
        [] OTHER -> ParseFail

\* the elements of an array from position i on, up to the closing bracket
ParseElements(text, i, acc) ==
  LET e == ParseValue(text, i)
      j == SkipWs(text, e.next)
      c == IF j <= Len(text) THEN CharAt(text, j) ELSE ""
  IN  IF ~e.ok THEN ParseFail
      ELSE IF c = "," THEN ParseElements(text, j + 1, Append(acc, e.v))
      ELSE IF c = "]" THEN ParseOk(Arr(Append(acc, e.v)), j + 1)
      ELSE ParseFail

\* the members of an object from position i on, up to the closing brace; a
\* repeated key keeps its first place and takes the last value
ParseMembers(text, i, acc) ==
  LET k0 == SkipWs(text, i)
      key == IF k0 <= Len(text) /\ CharAt(text, k0) = "\"" THEN ParseString(text, k0)
             ELSE ParseFail
      colon == SkipWs(text, key.next)
      val == IF key.ok /\ colon <= Len(text) /\ CharAt(text, colon) = ":"
             THEN ParseValue(text, colon + 1)
             ELSE ParseFail
      j == SkipWs(text, val.next)
      c == IF j <= Len(text) THEN CharAt(text, j) ELSE ""
  IN  IF ~val.ok THEN ParseFail
      ELSE IF c = "," THEN ParseMembers(text, j + 1, SetKey(acc, key.v.s, val.v))
      ELSE IF c = "}" THEN ParseOk(SetKey(acc, key.v.s, val.v), j + 1)
      ELSE ParseFail

\* JSON.parse(text) throws a SyntaxError
JsonParseThrows(text) ==
  LET r == ParseValue(text, 1)
  IN  ~r.ok \/ SkipWs(text, r.next) <= Len(text)

\* the value JSON.parse(text) returns
JsonParse(text) == ParseValue(text, 1).v

\* the body of decodeReceiptFromFragment: whether the catch block is taken,
\* and the value returned
DecodeAttempt(fragment) ==
  IF DecodeThrows(fragment) THEN [failed |-> TRUE, value |-> Null]
  ELSE LET json == Utf8Decode(DecodeBytes(fragment))
           r == ParseValue(json, 1)
       IN  IF ~r.ok \/ SkipWs(json, r.next) <= Len(json)
           THEN [failed |-> TRUE, value |-> Null]
           ELSE [failed |-> FALSE, value |-> r.v]

\* decodeReceiptFromFragment: the catch block is taken
DecodeFails(fragment) == DecodeAttempt(fragment).failed

\* decodeReceiptFromFragment for a string argument
decodeReceiptFromFragment(fragment) == DecodeAttempt(fragment).value

(***************************************************************************)
(* Structural comparison of values                                         *)
(***************************************************************************)

KeySet(o) == {o.xs[i].k : i \in 1..Len(o.xs)}

\* the values that no JSON text denotes and the serializer renders as null
Nullish(v) ==
  \/ v.t \in {"null", "undefined", "function"}
  \/ v.t = "number" /\ ~IsFinite(v)

\* a and b are the same value, up to the insertion order of mapping keys;
\* with lossy = TRUE also up to the differences the serializer is documented
\* to drop: the nullish values are one value, and -0 is 0
RECURSIVE SameValue(_, _, _)
SameValue(a, b, lossy) ==
  IF lossy /\ (Nullish(a) \/ Nullish(b)) THEN Nullish(a) /\ Nullish(b)
  ELSE IF a.t # b.t THEN FALSE
  ELSE CASE a.t = "number" -> a.n = b.n /\ (a.s = b.s \/ (lossy /\ IsFinite(a) /\ IsFinite(b)))
         [] a.t = "boolean" -> a.n = b.n
         [] a.t = "string" -> a.s = b.s
         [] a.t = "array" ->
              /\ Len(a.xs) = Len(b.xs)
              /\ \A i \in 1..Len(a.xs) : SameValue(a.xs[i].v, b.xs[i].v, lossy)
         [] a.t = "object" ->
              /\ KeySet(a) = KeySet(b)
              /\ \A k \in KeySet(a) : SameValue(Get(a, k), Get(b, k), lossy)
         [] OTHER -> TRUE

(***************************************************************************)
(* Edits of a receipt held by a third party (hand edits, corruption)       *)
(***************************************************************************)

\* the positions of the members reachable in v, as paths of member indices
RECURSIVE Paths(_)
Paths(v) ==
  IF v.t \notin {"array", "object"} THEN {<<>>}
  ELSE {<<>>} \cup UNION {{<<i>> \o p : p \in Paths(v.xs[i].v)} : i \in 1..Len(v.xs)}

RECURSIVE ValueAt(_, _)
ValueAt(v, path) == IF path = <<>> THEN v ELSE ValueAt(v.xs[Head(path)].v, Tail(path))

\* the keys (or "" for array elements) along a path
RECURSIVE KeysAlong(_, _)
KeysAlong(v, path) ==
  IF path = <<>> THEN <<>>
  ELSE <<v.xs[Head(path)].k>> \o KeysAlong(v.xs[Head(path)].v, Tail(path))

RECURSIVE ReplaceAt(_, _, _)
ReplaceAt(v, path, new) ==
  IF path = <<>> THEN new
  ELSE [v EXCEPT !.xs[Head(path)].v = ReplaceAt(v.xs[Head(path)].v, Tail(path), new)]

RemoveIndex(xs, i) == SubSeq(xs, 1, i - 1) \o SubSeq(xs, i + 1, Len(xs))

\* removal of the member at a non-empty path
RECURSIVE DeleteAt(_, _)
DeleteAt(v, path) ==
  IF Len(path) = 1 THEN [v EXCEPT !.xs = RemoveIndex(v.xs, Head(path))]
  ELSE [v EXCEPT !.xs[Head(path)].v = DeleteAt(v.xs[Head(path)].v, Tail(path))]

\* a new member appended to the array or object at path
InsertAt(v, path, key, new) ==
  LET c == ValueAt(v, path)
  IN  ReplaceAt(v, path,
        [c EXCEPT !.xs = Append(c.xs, Member(IF c.t = "array" THEN "" ELSE key, new))])

(***************************************************************************)
(* Inputs                                                                  *)
(***************************************************************************)

ItemRecord == Obj(<<Member("id", Str("b1")), Member("title", Str("Fish Story"))>>)

SearchFilters ==
  Obj(<<Member("search_query", Str("labor")),
        Member("active_signals", Arr(<<Str("labor"), Str("sea")>>))>>)

SparseFilters ==
  Obj(<<Member("lc_class_filter", Null), Member("min_score", Num(0)),
        Member("note", Str("a \"b\"\n")), Member("curated_path_id", Undefined)>>)

DatasetUrl == Str("data/index.json")

\* the arguments createReceipt is called with: no option at all; a view
\* export with a dataset URL; a shelf of records and identifiers; a shelf
\* with a dataset URL; an item list with a null element, without and with URL
OptionCases ==
  { Obj(<<>>),
    Obj(<<Member("mode", Str("view")), Member("filters", SearchFilters),
          Member("datasetUrl", DatasetUrl)>>),
    Obj(<<Member("items", Arr(<<ItemRecord, Str("id-2")>>)),
          Member("filters", SparseFilters), Member("datasetUrl", Null)>>),
    Obj(<<Member("mode", Str("shelf")), Member("items", Arr(<<Str("id-1"), Str("id-2")>>)),
          Member("filters", SearchFilters), Member("datasetName", Str("Test Collection")),
          Member("datasetUrl", DatasetUrl)>>),
    Obj(<<Member("items", Arr(<<Str("id-1"), Null>>))>>),
    Obj(<<Member("items", Arr(<<Null>>)), Member("datasetUrl", DatasetUrl)>>) }

\* new Date().toISOString() at the moment the payload is built
Clock == {"2024-01-15T14:30:00.000Z"}

\* the text of the response body of the dataset fetch (a dataset, an error page)
DatasetBodies == {"[]", "Not Found"}

\* outcomes of the twelve calls of Math.random() of one generateReceiptID
RandomStreams ==
  { [i \in 1..(Segments * SegmentLength) |-> 0],
    [i \in 1..(Segments * SegmentLength) |-> (i * 83) % RandDen] }

\* values written by an edit
EditValues == {Null, Undefined, NaN, Num(0), NegZero, Str(""), Str("x"), Arr(<<>>)}

\* texts that arrive as a fragment without having been produced by the
\* encoder: empty; one character; "{}" exactly, with non-zero unused bits,
\* with padding, with a space, with a character outside both alphabets, with
\* the standard alphabet's '+'; the JSON texts null and 5; a quoted byte FF;
\* {"hash":{"value":"7b7d"}}, an object with no receipt field and the digest
\* of the empty payload
ForeignFragments ==
  {"", "e", "e30", "e31", "e30=", "e3 0", "e30$", "eyJ+Ijo1fQ", "bnVsbA", "NQ", "Iv8i",
   "eyJoYXNoIjp7InZhbHVlIjoiN2I3ZCJ9fQ"}

\* number of characters a truncation removes from the end of a fragment
MaxCut == 3

\* characters written over a character of a fragment
DamageChars == {"$", "A"}

(***************************************************************************)
(* State                                                                   *)
(***************************************************************************)

VARIABLES
  pc,           \* createReceipt: "idle", the await it is suspended at, or how it settled
  options,      \* createReceipt: its argument
  dsBody,       \* computeDatasetHash: the text read from the response
  dsFailed,     \* computeDatasetHash: its catch block was taken
  payload,      \* createReceipt: the payload built
  digestIn,     \* hashCanonicalJSON called by createReceipt: the text handed to the digest
  receipt,      \* the value createReceipt resolved with
  suspensions,  \* createReceipt: the awaits at which it has been suspended so far
  cand,         \* the candidate receipt held by whoever verifies
  origin,       \* the stage of the exchange: "none", "built", "edited", "sent", "received"
  fragment,     \* the text after "#r=" in transit
  damage,       \* what happened to the fragment in transit: "none", "cut", "char", "foreign"
  decodeFailed, \* decodeReceiptFromFragment took its catch block
  vpc,          \* verifyReceipt: "idle", "digest" (suspended), "done"
  vDigestIn,    \* hashCanonicalJSON called by verifyReceipt: the text handed to the digest
  digestCalls,  \* number of digests verifyReceipt asked for
  result,       \* the value verifyReceipt resolved with
  pStage,       \* a function applied on its own: "none", "input", "encoded", "decoded", "permuted"
  pIn,          \* its input value
  pOut,         \* its output value
  pBytes,       \* the bytes given to the encoder
  pText,        \* the text the encoder produced
  pBack,        \* the bytes the decoder produced
  pRand,        \* the outcomes of Math.random() it consumes (numerators over RandDen)
  graph,        \* canonicalStringify on an object graph: the objects, by reference
  callStack,    \* its active calls: the object of each and the member it has reached
  walkPc,       \* "idle", "running", "returned" or "RangeError"
  locationHash, \* window.location.hash of the page that loads a receipt
  urlReceipt,   \* the value getReceiptFromURL returned
  changedAt,    \* where createReceipt stood when its caller changed an object it
                \* had passed ("" while it has changed none)
  time,         \* the clock of the page, in milliseconds
  query,        \* SearchState: this.query
  listeners,    \* SearchState: this.listeners, in insertion order
  debouncedNotify, \* SearchState: this._debouncedNotify has been created
  timeout,      \* debounce: the timer id held in its closure (0 while undefined)
  timers,       \* the timers of the page that are pending: id and time due
  nextTimer,    \* the id the next setTimeout returns
  trace,        \* the calls made to the SearchState and the notifications it made
  stored,       \* localStorage: the item "shelfsignals_palette" (null while absent)
  paletteCalls  \* the calls of setActivePalette and getActivePalette made so far:
                \* the argument and the value returned

builderVars == <<pc, options, dsBody, dsFailed, payload, digestIn, receipt, suspensions>>

candVars == <<cand, origin>>

transportVars == <<fragment, damage, decodeFailed>>

verifierVars == <<vpc, vDigestIn, digestCalls, result>>

walkVars == <<graph, callStack, walkPc>>

pureVars == <<pStage, pIn, pOut, pBytes, pText, pBack, pRand, walkVars>>

searchVars == <<time, query, listeners, debouncedNotify, timeout, timers, nextTimer, trace>>

paletteVars == <<stored, paletteCalls>>

pageVars == <<searchVars, paletteVars>>

hostVars == <<locationHash, urlReceipt, changedAt, pageVars>>

vars == <<builderVars, candVars, transportVars, verifierVars, pureVars, hostVars>>

NoResult == [valid |-> FALSE, reason |-> "", computedHash |-> Undefined,
             providedHash |-> Undefined]

\* new SearchState()
SearchIdle ==
  /\ time = 0
  /\ query = ""
  /\ listeners = <<>>
  /\ debouncedNotify = FALSE
  /\ timeout = 0
  /\ timers = {}
  /\ nextTimer = 1
  /\ trace = <<>>

\* no call of the palette functions has been made
PaletteIdle == paletteCalls = <<>>

ModuleInit ==
  /\ pc = "idle"
  /\ options = Undefined
  /\ dsBody = ""
  /\ dsFailed = FALSE
  /\ payload = Undefined
  /\ digestIn = ""
  /\ receipt = Undefined
  /\ suspensions = 0
  /\ cand = Undefined
  /\ origin = "none"
  /\ fragment = ""
  /\ damage = "none"
  /\ decodeFailed = FALSE
  /\ vpc = "idle"
  /\ vDigestIn = ""
  /\ digestCalls = 0
  /\ result = NoResult
  /\ locationHash = ""
  /\ urlReceipt = Undefined
  /\ changedAt = ""
  /\ graph = <<>>
  /\ callStack = <<>>
  /\ walkPc = "idle"
  /\ SearchIdle
  /\ PaletteIdle

ProgramInit == ModuleInit /\ stored = Null

PureIdle ==
  /\ pStage = "none"
  /\ pIn = Undefined
  /\ pOut = Undefined
  /\ pBytes = <<>>
  /\ pText = ""
  /\ pBack = <<>>
  /\ pRand = <<>>

Init == ProgramInit /\ PureIdle

(***************************************************************************)
(* createReceipt and computeDatasetHash                                    *)
(***************************************************************************)

\* createReceipt from the point where indexHash is known up to its next
\* await: the payload is built (items.map may throw) and hashCanonicalJSON
\* serializes it and awaits the digest
ContinueWithIndexHash(opts, indexHash) ==
  IF ItemsMappable(Default(Get(opts, "items"), Arr(<<>>)))
  THEN \E now \in Clock :
         /\ payload' = BuildPayload(opts, now, indexHash)
         /\ digestIn' = canonicalStringify(payload')
         /\ pc' = "digest"
         /\ suspensions' = suspensions + 1
  ELSE /\ pc' = "rejected"
       /\ UNCHANGED <<payload, digestIn, suspensions>>

\* createReceipt that never looks at datasetUrl: no dataset is fetched
CreateReceiptIgnoringDataset(opts) ==
  /\ pc = "idle"
  /\ origin = "none"
  /\ options' = opts
  /\ ContinueWithIndexHash(opts, SentinelNotComputed)
  /\ UNCHANGED <<dsBody, dsFailed, receipt, candVars, transportVars, verifierVars, pureVars, hostVars>>

\* createReceipt(options) up to its first await
CreateReceipt(opts) ==
  /\ pc = "idle"
  /\ origin = "none"
  /\ options' = opts
  /\ IF Truthy(Default(Get(opts, "datasetUrl"), Null))
     THEN /\ pc' = "fetch"
          /\ suspensions' = suspensions + 1
          /\ UNCHANGED <<payload, digestIn>>
     ELSE ContinueWithIndexHash(opts, SentinelNotComputed)
  /\ UNCHANGED <<dsBody, dsFailed, receipt, candVars, transportVars, verifierVars, pureVars, hostVars>>

\* await fetch(datasetUrl) resolves with a response (whatever its HTTP status)
FetchResolves ==
  /\ pc = "fetch"
  /\ pc' = "text"
  /\ suspensions' = suspensions + 1
  /\ UNCHANGED <<options, dsBody, dsFailed, payload, digestIn, receipt>>
  /\ UNCHANGED <<candVars, transportVars, verifierVars, pureVars, hostVars>>

\* computeDatasetHash without its try/catch: the error reaches the caller of
\* createReceipt
RethrowDatasetError ==
  /\ dsFailed' = TRUE
  /\ pc' = "rejected"
  /\ UNCHANGED <<options, dsBody, payload, digestIn, receipt, suspensions>>
  /\ UNCHANGED <<candVars, transportVars, verifierVars, pureVars, hostVars>>

\* the catch block of computeDatasetHash: the sentinel is returned and
\* createReceipt goes on
CatchDatasetError ==
  /\ dsFailed' = TRUE
  /\ ContinueWithIndexHash(options, SentinelUnavailable)
  /\ UNCHANGED <<options, dsBody, receipt>>
  /\ UNCHANGED <<candVars, transportVars, verifierVars, pureVars, hostVars>>

\* await fetch(datasetUrl) rejects
FetchRejects ==
  /\ pc = "fetch"
  /\ CatchDatasetError

\* await response.text() resolves; the text is encoded and handed to the digest
TextResolves(body) ==
  /\ pc = "text"
  /\ dsBody' = body
  /\ pc' = "dsdigest"
  /\ suspensions' = suspensions + 1
  /\ UNCHANGED <<options, dsFailed, payload, digestIn, receipt>>
  /\ UNCHANGED <<candVars, transportVars, verifierVars, pureVars, hostVars>>

\* await response.text() rejects
TextRejects ==
  /\ pc = "text"
  /\ CatchDatasetError

\* the digest of the dataset resolves: computeDatasetHash returns its hex form
DatasetDigestResolves ==
  /\ pc = "dsdigest"
  /\ ContinueWithIndexHash(options, HashOfText(dsBody))
  /\ UNCHANGED <<options, dsBody, dsFailed, receipt>>
  /\ UNCHANGED <<candVars, transportVars, verifierVars, pureVars, hostVars>>

\* the digest of the dataset rejects
DatasetDigestRejects ==
  /\ pc = "dsdigest"
  /\ CatchDatasetError

\* the digest of the payload resolves: createReceipt stamps and returns the
\* receipt, which its caller then holds
PayloadDigestResolves(rand) ==
  /\ pc = "digest"
  /\ receipt' = StampReceipt(payload, HexOfBytes(Sha256(Utf8Encode(digestIn))),
                             generateReceiptID(rand))
  /\ pc' = "returned"
  /\ cand' = receipt'
  /\ origin' = "built"
  /\ UNCHANGED <<options, dsBody, dsFailed, payload, digestIn, suspensions>>
  /\ UNCHANGED <<transportVars, verifierVars, pureVars, hostVars>>

(***************************************************************************)
(* The caller of createReceipt changes an object it passed                 *)
(***************************************************************************)

\* v.filters replaced where v has been built: options.filters, payload.filters
\* and receipt.filters are one object (destructuring, the payload literal and
\* the spread of the payload copy the reference, receipt.js:114, 141, 149)
SharingFilters(v, filters) ==
  IF v.t = "object" /\ HasKey(v, "filters") THEN SetKey(v, "filters", filters) ELSE v

\* the caller sets a field of the filters object it passed, while the build
\* is suspended at an await or after it has returned
CallerChangesFilters(key, new) ==
  /\ pc \in {"fetch", "text", "dsdigest", "digest", "returned"}
  /\ origin \in {"none", "built"}
  /\ vpc = "idle"
  /\ changedAt = ""
  /\ Get(options, "filters").t = "object"
  /\ Get(Get(options, "filters"), key) # new
  /\ LET filters == SetKey(Get(options, "filters"), key, new)
     IN  /\ options' = SharingFilters(options, filters)
         /\ payload' = SharingFilters(payload, filters)
         /\ receipt' = SharingFilters(receipt, filters)
         /\ cand' = SharingFilters(cand, filters)
  /\ changedAt' = pc
  /\ UNCHANGED <<pc, dsBody, dsFailed, digestIn, suspensions, origin, transportVars,
                 verifierVars, pureVars, locationHash, urlReceipt, pageVars>>

\* the caller sets a field of an item record it passed; a record with an id
\* is in the payload by its id only (item.id || item, receipt.js:140)
CallerChangesItem(i, key, new) ==
  /\ pc \in {"fetch", "text", "dsdigest", "digest", "returned"}
  /\ origin \in {"none", "built"}
  /\ vpc = "idle"
  /\ changedAt = ""
  /\ Get(options, "items").t = "array"
  /\ i \in 1..Len(Get(options, "items").xs)
  /\ LET items == Get(options, "items")
         item == items.xs[i].v
     IN  /\ item.t = "object"
         /\ Truthy(Get(item, "id"))
         /\ Get(item, key) # new
         /\ options' = SetKey(options, "items",
                          [items EXCEPT !.xs[i].v = SetKey(item, key, new)])
  /\ changedAt' = pc
  /\ UNCHANGED <<pc, dsBody, dsFailed, payload, digestIn, receipt, suspensions, candVars,
                 transportVars, verifierVars, pureVars, locationHash, urlReceipt, pageVars>>

(***************************************************************************)
(* A holder of the receipt edits it before it is verified                  *)
(***************************************************************************)

\* the holder of the built receipt may edit it once, before verifying it
Editable == origin = "built" /\ vpc = "idle"

Edited(new) ==
  /\ Editable
  /\ cand' = new
  /\ cand' # cand
  /\ origin' = "edited"
  /\ UNCHANGED <<builderVars, transportVars, verifierVars, pureVars, hostVars>>

EditReplace(path, new) ==
  /\ Editable
  /\ path \in Paths(cand) \ {<<>>}
  /\ Edited(ReplaceAt(cand, path, new))

EditDelete(path) ==
  /\ Editable
  /\ path \in Paths(cand) \ {<<>>}
  /\ Edited(DeleteAt(cand, path))

EditInsert(path, key, new) ==
  /\ Editable
  /\ path \in Paths(cand)
  /\ ValueAt(cand, path).t \in {"array", "object"}
  /\ ~HasKey(ValueAt(cand, path), key)
  /\ Edited(InsertAt(cand, path, key, new))

\* one character appended to the string at path
EditAppendChar(path, c) ==
  /\ Editable
  /\ path \in Paths(cand)
  /\ ValueAt(cand, path).t = "string"
  /\ Edited(ReplaceAt(cand, path, Str(ValueAt(cand, path).s \o c)))

\* the string at path put in upper case
EditUpperCase(path) ==
  /\ Editable
  /\ path \in Paths(cand)
  /\ ValueAt(cand, path).t = "string"
  /\ Edited(ReplaceAt(cand, path, Str(ToUpperCase(ValueAt(cand, path).s))))

(***************************************************************************)
(* Transport of a receipt in a URL fragment                                *)
(***************************************************************************)

\* encodeReceiptToFragment(receipt), by the holder of the built receipt
EncodeReceipt ==
  /\ origin = "built"
  /\ vpc = "idle"
  /\ fragment' = encodeReceiptToFragment(cand)
  /\ origin' = "sent"
  /\ UNCHANGED <<builderVars, cand, damage, decodeFailed, verifierVars, pureVars, hostVars>>

\* a text that no encoder produced arrives as the fragment
ForeignFragment(f) ==
  /\ origin = "none"
  /\ pc = "idle"
  /\ fragment' = f
  /\ damage' = "foreign"
  /\ origin' = "sent"
  /\ UNCHANGED <<builderVars, cand, decodeFailed, verifierVars, pureVars, hostVars>>

\* the last k characters of the fragment are lost
TruncateFragment(k) ==
  /\ origin = "sent"
  /\ damage = "none"
  /\ k \in 1..Min(MaxCut, Len(fragment))
  /\ fragment' = SubSeq(fragment, 1, Len(fragment) - k)
  /\ damage' = "cut"
  /\ UNCHANGED <<builderVars, candVars, decodeFailed, verifierVars, pureVars, hostVars>>

\* one character of the fragment (the first, the middle or the last) is overwritten
DamageFragment(i, c) ==
  /\ origin = "sent"
  /\ damage = "none"
  /\ i \in {1, (Len(fragment) + 1) \div 2, Len(fragment)} \ {0}
  /\ CharAt(fragment, i) # c
  /\ fragment' = SubSeq(fragment, 1, i - 1) \o c \o SubSeq(fragment, i + 1, Len(fragment))
  /\ damage' = "char"
  /\ UNCHANGED <<builderVars, candVars, decodeFailed, verifierVars, pureVars, hostVars>>

\* decodeReceiptFromFragment(fragment); its result becomes the candidate
DecodeFragment ==
  /\ origin = "sent"
  /\ LET attempt == DecodeAttempt(fragment)
     IN  /\ decodeFailed' = attempt.failed
         /\ cand' = attempt.value
  /\ origin' = "received"
  /\ UNCHANGED <<builderVars, fragment, damage, verifierVars, pureVars, hostVars>>

(***************************************************************************)
(* A page is opened with a link and reads the receipt from its URL         *)
(***************************************************************************)

\* what precedes the fragment text in location.hash: no fragment at all, the
\* "#r=" of receipt.js, the "#receipt=" of the documentation
HashPrefixes == {"", "#r=", "#receipt="}

\* characters the URL parser percent-encodes in a fragment
FragmentEncodeSet == {" ", "\"", "<", ">", Backtick}

StartsWith(text, prefix) ==
  Len(text) >= Len(prefix) /\ SubSeq(text, 1, Len(prefix)) = prefix

\* the page is opened with the fragment in transit behind a prefix
Navigate(prefix) ==
  /\ origin = "sent"
  /\ {i \in 1..Len(fragment) : CharAt(fragment, i) \in FragmentEncodeSet} = {}
  /\ locationHash' = IF prefix = "" THEN "" ELSE prefix \o fragment
  /\ origin' = "navigated"
  /\ UNCHANGED <<builderVars, cand, transportVars, verifierVars, pureVars, urlReceipt, changedAt,
                 pageVars>>

\* getReceiptFromURL(): the value it returns is what its caller holds
GetReceiptFromURL ==
  /\ origin = "navigated"
  /\ IF locationHash = "" \/ ~StartsWith(locationHash, "#r=")
     THEN /\ urlReceipt' = Null
          /\ UNCHANGED decodeFailed
     ELSE LET attempt == DecodeAttempt(SubSeq(locationHash, 4, Len(locationHash)))
          IN  /\ decodeFailed' = attempt.failed
              /\ urlReceipt' = attempt.value
  /\ cand' = urlReceipt'
  /\ origin' = "loaded"
  /\ UNCHANGED <<builderVars, fragment, damage, verifierVars, pureVars, locationHash, changedAt,
                 pageVars>>

(***************************************************************************)
(* verifyReceipt                                                           *)
(***************************************************************************)

\* verifyReceipt(cand) up to its await (or to its early return)
VerifyReceipt ==
  /\ vpc = "idle"
  /\ origin \in {"built", "edited", "received", "loaded"}
  /\ IF HashMissing(cand)
     THEN /\ result' = MissingResult
          /\ vpc' = "done"
          /\ UNCHANGED <<vDigestIn, digestCalls>>
     ELSE /\ vDigestIn' = canonicalStringify(VerifierPayload(cand))
          /\ digestCalls' = digestCalls + 1
          /\ vpc' = "digest"
          /\ UNCHANGED result
  /\ UNCHANGED <<builderVars, candVars, transportVars, pureVars, hostVars>>

\* the verifier of the documentation, which records the time of the
\* verification in the receipt it was given
VerifyDigestResolvesStamping ==
  /\ vpc = "digest"
  /\ result' = CompareResult(HexOfBytes(Sha256(Utf8Encode(vDigestIn))),
                             Get(Get(cand, "hash"), "value"))
  /\ vpc' = "done"
  /\ cand' = SetKey(cand, "verifiedAt", Str("2024-01-15T14:31:00.000Z"))
  /\ UNCHANGED <<builderVars, origin, transportVars, vDigestIn, digestCalls, pureVars, hostVars>>

\* the digest resolves: the comparison and the result
VerifyDigestResolves ==
  /\ vpc = "digest"
  /\ result' = CompareResult(HexOfBytes(Sha256(Utf8Encode(vDigestIn))),
                             Get(Get(cand, "hash"), "value"))
  /\ vpc' = "done"
  /\ UNCHANGED <<builderVars, candVars, transportVars, vDigestIn, digestCalls, pureVars, hostVars>>

\* the steps of a build
BuildNext ==
  \/ \E opts \in OptionCases : CreateReceipt(opts)
  \/ FetchResolves
  \/ FetchRejects
  \/ \E body \in DatasetBodies : TextResolves(body)
  \/ TextRejects
  \/ DatasetDigestResolves
  \/ DatasetDigestRejects
  \/ \E rand \in RandomStreams : PayloadDigestResolves(rand)

\* the edits of a holder
EditNext ==
  \/ \E path \in Paths(cand) : \E new \in EditValues : EditReplace(path, new)
  \/ \E path \in Paths(cand) : EditDelete(path)
  \/ \E path \in Paths(cand) : \E new \in EditValues : EditInsert(path, "extra", new)
  \/ \E path \in Paths(cand) : EditAppendChar(path, "s")
  \/ \E path \in Paths(cand) : EditUpperCase(path)

\* the steps of a transport
TransportNext ==
  \/ EncodeReceipt
  \/ \E f \in ForeignFragments : ForeignFragment(f)
  \/ \E k \in 1..MaxCut : TruncateFragment(k)
  \/ \E i \in 1..Len(fragment) : \E c \in DamageChars : DamageFragment(i, c)
  \/ DecodeFragment

\* the steps of a verification
VerifyNext ==
  \/ VerifyReceipt
  \/ VerifyDigestResolves

Next == BuildNext \/ EditNext \/ TransportNext \/ VerifyNext

Spec == Init /\ [][Next]_vars

\* once the server has responded, the read of the body settles
BodyReadSettles == pc = "text" /\ pc' \in {"dsdigest", "digest", "rejected"}

\* a pending digest settles: the await of the dataset digest, of the payload
\* digest and of the verifier's digest is left
DatasetDigestSettles == pc = "dsdigest" /\ pc' \in {"digest", "rejected"}

PayloadDigestSettles == pc = "digest" /\ pc' = "returned"

VerifierDigestSettles == vpc = "digest" /\ vpc' = "done"

\* a digest is computed locally and settles, and so does the read of a
\* response that has arrived; the server owes no response: a fetch may stay
\* pending for ever
FairSpec ==
  /\ Spec
  /\ WF_pc(BodyReadSettles)
  /\ WF_pc(DatasetDigestSettles)
  /\ WF_pc(PayloadDigestSettles)
  /\ WF_vpc(VerifierDigestSettles)

\* a receipt is built, put in a link (or a foreign link is made), the link
\* is opened and the page reads the receipt from its URL; the page may then
\* verify what it read
LoadNext ==
  \/ BuildNext
  \/ EncodeReceipt
  \/ \E f \in ForeignFragments : ForeignFragment(f)
  \/ \E prefix \in HashPrefixes : Navigate(prefix)
  \/ GetReceiptFromURL
  \/ VerifyNext

LoadSpec == Init /\ [][LoadNext]_vars

\* a build whose caller goes on using the objects it passed, and a
\* verification of the receipt the build returned
AliasNext ==
  \/ BuildNext
  \/ \E new \in {Str("changed"), Null} : CallerChangesFilters("search_query", new)
  \/ \E i \in 1..2 : CallerChangesItem(i, "title", Str("changed"))
  \/ VerifyNext

AliasSpec == Init /\ [][AliasNext]_vars

(***************************************************************************)
(* canonicalStringify on its own: the same value under every insertion     *)
(* order of its keys                                                       *)
(***************************************************************************)

\* keys and strings that hold spaces, tabs, newlines and carriage returns
WhitespaceFilters ==
  Obj(<<Member("search query", Str("fish story\ttab\nline\r")),
        Member("tab\tkey", Arr(<<Str(" "), Str("\n")>>)),
        Member(" ", Str(""))>>)

\* a number that is not finite at the top level, as an array element (also
\* of a nested array) and as a mapping value
NonFiniteValues ==
  { NaN,
    NegInfinity,
    Arr(<<Num(1), Infinity, Arr(<<NaN>>)>>),
    Obj(<<Member("max", NegInfinity), Member("min", Num(0)),
          Member("avg", NaN), Member("all", Arr(<<Infinity, Num(2)>>))>>) }

\* values with nested objects and arrays; keys that are a prefix of another
\* key, differ in case, are empty or look like array indices
CanonValues ==
  { Obj(<<Member("b", Num(1)),
          Member("a", Obj(<<Member("z", Null),
                            Member("y", Arr(<<Obj(<<Member("9", Num(1)),
                                                    Member("10", Str("s"))>>),
                                              Num(2)>>)),
                            Member("", NaN)>>)),
          Member("B", Bool(TRUE)),
          Member("ab", Str("a \"b\""))>>),
    SparseFilters,
    SearchFilters,
    WhitespaceFilters } \cup NonFiniteValues

\* v with members i and i+1 of the object at path exchanged
SwapMembers(v, path, i) ==
  LET c == ValueAt(v, path)
  IN  ReplaceAt(v, path,
        [c EXCEPT !.xs = [j \in 1..Len(c.xs) |->
                            IF j = i THEN c.xs[i + 1]
                            ELSE IF j = i + 1 THEN c.xs[i]
                            ELSE c.xs[j]]])

CanonInit ==
  /\ ProgramInit
  /\ pStage = "value"
  /\ pIn \in CanonValues
  /\ pOut = pIn
  /\ pText = canonicalStringify(pIn)
  /\ pBytes = <<>>
  /\ pBack = <<>>
  /\ pRand = <<>>

\* the same value built with two neighbouring keys inserted the other way
\* round, then serialized
ReorderKeys(path, i) ==
  /\ pStage \in {"value", "permuted"}
  /\ path \in Paths(pOut)
  /\ ValueAt(pOut, path).t = "object"
  /\ i \in 1..(Len(ValueAt(pOut, path).xs) - 1)
  /\ pOut' = SwapMembers(pOut, path, i)
  /\ pText' = canonicalStringify(pOut')
  /\ pStage' = "permuted"
  /\ UNCHANGED <<builderVars, candVars, transportVars, verifierVars, hostVars, walkVars, pRand, pIn, pBytes, pBack>>

CanonNext == \E path \in Paths(pOut) : \E i \in 1..3 : ReorderKeys(path, i)

CanonSpec == CanonInit /\ [][CanonNext]_vars

(***************************************************************************)
(* The transport codec on its own: bytes, and receipts of JSON values      *)
(***************************************************************************)

\* the longest byte sequence built from SampleBytes
MaxBytes == 3

\* bytes whose 6-bit groups hit both ends of the alphabet, '+' and '/'
\* (62, 63) included, and both sides of the 7-bit boundary
SampleBytes == {0, 1, 62, 63, 127, 128, 250, 251, 254, 255}

ByteSeqs ==
  UNION {[1..k -> SampleBytes] : k \in 0..MaxBytes}
    \cup {<<b>> : b \in 0..255}
    \cup {<<a, b>> : a \in SampleBytes, b \in 0..255}
    \cup {<<a, b, c>> : a \in {0, 255}, b \in SampleBytes, c \in 0..255}

\* a value JSON.parse can return and JSON.stringify renders without loss
RECURSIVE IsJson(_)
IsJson(v) ==
  CASE v.t \in {"null", "boolean", "string"} -> TRUE
    [] v.t = "number" -> v.s = ""
    [] v.t \in {"array", "object"} -> \A i \in 1..Len(v.xs) : IsJson(v.xs[i].v)
    [] OTHER -> FALSE

AccentedFilters ==
  Obj(<<Member("search_query", Str("caf" \o EAcute \o " \"x\"\n\t\\/")),
        Member("min_score", Num(0 - 12)),
        Member("empty", Obj(<<>>))>>)

\* createReceipt run to completion
BuiltReceipt(opts, now, indexHash, rand) ==
  LET p == BuildPayload(opts, now, indexHash)
  IN  StampReceipt(p, hashCanonicalJSON(p), generateReceiptID(rand))

CodecReceipts ==
  { r \in { BuiltReceipt(opts, now, ih, rand) :
              opts \in { o \in OptionCases \cup
                                 {Obj(<<Member("items", Arr(<<ItemRecord, Str("id-2")>>)),
                                        Member("filters", AccentedFilters)>>)} :
                           ItemsMappable(Default(Get(o, "items"), Arr(<<>>))) },
              now \in Clock,
              ih \in {SentinelNotComputed, SentinelUnavailable, HashOfText("[]")},
              rand \in RandomStreams } :
      IsJson(r) }

CodecInit ==
  /\ ProgramInit
  /\ pText = ""
  /\ pBack = <<>>
  /\ pRand = <<>>
  /\ pOut = Undefined
  /\ \/ pStage = "bytes" /\ pBytes \in ByteSeqs /\ pIn = Undefined
     \/ pStage = "receipt" /\ pBytes = <<>> /\ pIn \in CodecReceipts

\* the byte-to-text half of encodeReceiptToFragment
CodecEncodeBytes ==
  /\ pStage = "bytes"
  /\ pText' = EncodeBytes(pBytes)
  /\ pStage' = "bytes encoded"
  /\ UNCHANGED <<builderVars, candVars, transportVars, verifierVars, hostVars, walkVars, pRand, pIn, pOut, pBytes, pBack>>

\* the text-to-byte half of decodeReceiptFromFragment; <<256>> stands for an
\* exception
CodecDecodeBytes ==
  /\ pStage = "bytes encoded"
  /\ pBack' = IF DecodeThrows(pText) THEN <<256>> ELSE DecodeBytes(pText)
  /\ pStage' = "bytes decoded"
  /\ UNCHANGED <<builderVars, candVars, transportVars, verifierVars, hostVars, walkVars, pRand, pIn, pOut, pBytes, pText>>

CodecEncodeReceipt ==
  /\ pStage = "receipt"
  /\ pText' = encodeReceiptToFragment(pIn)
  /\ pStage' = "receipt encoded"
  /\ UNCHANGED <<builderVars, candVars, transportVars, verifierVars, hostVars, walkVars, pRand, pIn, pOut, pBytes, pBack>>

CodecDecodeReceipt ==
  /\ pStage = "receipt encoded"
  /\ pOut' = decodeReceiptFromFragment(pText)
  /\ pStage' = "receipt decoded"
  /\ UNCHANGED <<builderVars, candVars, transportVars, verifierVars, hostVars, walkVars, pRand, pIn, pBytes, pText, pBack>>

CodecNext ==
  \/ CodecEncodeBytes
  \/ CodecDecodeBytes
  \/ CodecEncodeReceipt
  \/ CodecDecodeReceipt

CodecSpec == CodecInit /\ [][CodecNext]_vars

(***************************************************************************)
(* generateReceiptID on its own, for every outcome of Math.random()        *)
(***************************************************************************)

\* sequences of twelve outcomes: the same outcome twelve times, and twelve
\* different outcomes starting from any outcome
IdStreams ==
  { [i \in 1..(Segments * SegmentLength) |-> r] : r \in RandomOutcomes }
    \cup { [i \in 1..(Segments * SegmentLength) |-> (r + i * 83) % RandDen] :
             r \in RandomOutcomes }

IdInit ==
  /\ ProgramInit
  /\ pStage = "random"
  /\ pRand \in IdStreams
  /\ pIn = Undefined
  /\ pOut = Undefined
  /\ pBytes = <<>>
  /\ pText = ""
  /\ pBack = <<>>

GenerateReceiptID ==
  /\ pStage = "random"
  /\ pText' = generateReceiptID(pRand)
  /\ pStage' = "id"
  /\ UNCHANGED <<builderVars, candVars, transportVars, verifierVars, hostVars, walkVars, pRand, pIn,
                 pOut, pBytes, pBack>>

IdNext == GenerateReceiptID

IdSpec == IdInit /\ [][IdNext]_vars

(***************************************************************************)
(* canonicalStringify on an object graph: its recursion                    *)
(***************************************************************************)

\* an object or array of the graph: kids are the objects its members refer
\* to, in the order the serializer visits them; members that are not objects
\* or arrays return at once and are left out
GraphNode(t, kids) == [t |-> t, kids |-> kids]

\* the frames the engine allows before it throws a RangeError
MaxCallStack == 12

\* graphs whose object 1 is the argument: a mapping of scalars; a mapping
\* with a nested array and mapping; a chain of three; an object referred to
\* twice (no cycle); an object that refers to itself; two objects that refer
\* to each other; a cycle below an array, after an acyclic member; a filters
\* mapping with three arrays of mappings; a chain of five; a cycle of three
\* entered from a shared object; a cycle at the end of a binary tree
WalkGraphs ==
  { <<GraphNode("object", <<>>)>>,
    <<GraphNode("object", <<2, 3>>), GraphNode("array", <<>>), GraphNode("object", <<>>)>>,
    <<GraphNode("array", <<2>>), GraphNode("object", <<3>>), GraphNode("array", <<>>)>>,
    <<GraphNode("object", <<2, 3>>), GraphNode("object", <<3>>), GraphNode("array", <<>>)>>,
    <<GraphNode("object", <<1>>)>>,
    <<GraphNode("object", <<2>>), GraphNode("object", <<1>>)>>,
    <<GraphNode("object", <<2, 3>>), GraphNode("object", <<>>),
      GraphNode("array", <<4>>), GraphNode("object", <<3>>)>>,
    <<GraphNode("object", <<2, 3, 4>>), GraphNode("array", <<5, 6>>),
      GraphNode("array", <<5>>), GraphNode("array", <<6, 6>>),
      GraphNode("object", <<>>), GraphNode("object", <<>>)>>,
    <<GraphNode("array", <<2>>), GraphNode("array", <<3>>), GraphNode("array", <<4>>),
      GraphNode("array", <<5>>), GraphNode("object", <<>>)>>,
    <<GraphNode("object", <<2, 2>>), GraphNode("object", <<3>>),
      GraphNode("array", <<4>>), GraphNode("object", <<2>>)>>,
    <<GraphNode("object", <<2, 3>>), GraphNode("object", <<4, 5>>),
      GraphNode("object", <<6, 7>>), GraphNode("array", <<>>), GraphNode("array", <<>>),
      GraphNode("array", <<>>), GraphNode("array", <<7>>)>> }

\* canonicalStringify(obj) is called with object 1 of graph g
CallCanonicalStringify(g) ==
  /\ walkPc = "idle"
  /\ pStage = "none"
  /\ pc = "idle"
  /\ origin = "none"
  /\ graph' = g
  /\ callStack' = <<[node |-> 1, next |-> 1]>>
  /\ walkPc' = "running"
  /\ UNCHANGED <<builderVars, candVars, transportVars, verifierVars, hostVars,
                 pStage, pIn, pOut, pBytes, pText, pBack, pRand>>

\* the innermost call goes on: it calls the serializer on its next member
\* (the callback of map, receipt.js:41, 47-48), which the engine refuses
\* with a RangeError when the stack is full, or it has no member left and
\* returns its text to its caller
WalkStep ==
  /\ walkPc = "running"
  /\ LET depth == Len(callStack)
         top == callStack[depth]
         kids == graph[top.node].kids
     IN  IF top.next <= Len(kids)
         THEN IF depth >= MaxCallStack
              THEN /\ walkPc' = "RangeError"
                   /\ callStack' = <<>>
              ELSE /\ callStack' = Append([callStack EXCEPT ![depth].next = top.next + 1],
                                          [node |-> kids[top.next], next |-> 1])
                   /\ UNCHANGED walkPc
         ELSE /\ callStack' = SubSeq(callStack, 1, depth - 1)
              /\ walkPc' = IF depth = 1 THEN "returned" ELSE "running"
  /\ UNCHANGED <<builderVars, candVars, transportVars, verifierVars, hostVars,
                 pStage, pIn, pOut, pBytes, pText, pBack, pRand, graph>>

WalkNext ==
  \/ \E g \in WalkGraphs : CallCanonicalStringify(g)
  \/ WalkStep

WalkSpec == Init /\ [][WalkNext]_vars

(***************************************************************************)
(* Properties                                                              *)
(***************************************************************************)

IndexHashOf(r) == Get(Get(r, "dataset"), "indexHash")

\* createReceipt has just returned: its caller holds the receipt and has
\* done nothing with it yet (the receipt is never written again)
JustReturned == pc = "returned" /\ origin = "built" /\ vpc = "idle"

\* C1 (verification self-consistency): every receipt createReceipt returns
\* verifies, and a verification of the unmodified receipt ends with
\* valid = TRUE, whatever the mode, items, filters and dataset outcome
C1_SelfConsistency ==
  /\ JustReturned => VerifyOutcome(receipt).valid
  /\ (vpc = "done" /\ origin = "built") => result.valid

\* a receipt of two items built after a failed dataset fetch has been verified
C1_Witness ==
  /\ vpc = "done"
  /\ origin = "built"
  /\ result.valid
  /\ IndexHashOf(receipt) = Str(SentinelUnavailable)
  /\ Len(Get(receipt, "items").xs) = 2

\* the fields the hash covers
Covered(r) == WithoutKeys(r, {"hash", "receiptId"})

C3_RoundTrip ==
  /\ pStage = "bytes decoded" => pBack = pBytes
  /\ pStage = "receipt decoded" => (pOut = pIn /\ ~DecodeFails(pText))

\* three bytes that encode to the two characters the URL-safe alphabet
\* replaces have made the round trip; so has a receipt with an accented and
\* an escaped character
C3_Witness ==
  \/ /\ pStage = "bytes decoded"
     /\ pBytes = <<251, 255, 255>>
     /\ pText = "-___"
     /\ pBack = pBytes
  \/ /\ pStage = "receipt decoded"
     /\ Get(pIn, "filters") = AccentedFilters
     /\ pOut = pIn

\* the keys of every object of v are in strictly ascending order
AscendingKeys(v) ==
  \A path \in Paths(v) :
    LET c == ValueAt(v, path)
    IN  c.t = "object" =>
          \A i \in 1..(Len(c.xs) - 1) : StrLess(c.xs[i].k, c.xs[i + 1].k)

\* C4 (canonicalization determinism): a value and the same value with its
\* keys inserted in another order, at any depth, have the same canonical
\* text and the same digest; the text lists the keys of every object in
\* ascending order, each once
C4_Determinism ==
  pStage \in {"value", "permuted"} =>
    /\ pText = canonicalStringify(pIn)
    /\ hashCanonicalJSON(pOut) = hashCanonicalJSON(pIn)
    /\ AscendingKeys(JsonParse(pText))
    /\ Cardinality(Paths(JsonParse(pText))) = Cardinality(Paths(pIn))

\* keys have been reordered at the top level and two levels below it
C4_Witness ==
  /\ pStage = "permuted"
  /\ Len(pIn.xs) = 4
  /\ pOut.xs[1].k # pIn.xs[1].k
  /\ \E path \in Paths(pIn) :
       /\ Len(path) = 3
       /\ path \in Paths(pOut)
       /\ ValueAt(pIn, path).t = "object"
       /\ ValueAt(pOut, path).t = "object"
       /\ ValueAt(pOut, path).xs # ValueAt(pIn, path).xs
       /\ KeySet(ValueAt(pOut, path)) = KeySet(ValueAt(pIn, path))

\* a text the encoder produces for some JSON object: unpadded URL-safe
\* base64 with its unused bits zero, of well-formed UTF-8, of a JSON text
\* that denotes an object
WellFormedFragment(f) ==
  /\ ~DecodeThrows(f)
  /\ EncodeBytes(DecodeBytes(f)) = f
  /\ LET bytes == DecodeBytes(f)
         text == Utf8Decode(bytes)
     IN  /\ Utf8Encode(text) = bytes
         /\ ~JsonParseThrows(text)
         /\ JsonParse(text).t = "object"

\* C5 (malformed input is an error): the decoding of a fragment that is not
\* a well-formed encoding ends in the error result null, and no successful
\* decoding returns null
C5_MalformedRejected ==
  origin = "received" =>
    /\ ~WellFormedFragment(fragment) => (decodeFailed /\ cand = Null)
    /\ ~decodeFailed => cand # Null

\* a digest as the hasher of this model writes it: lower-case hexadecimal
\* digits, two per byte (of the whole canonical text, so of no fixed length)
DigestShaped(v) ==
  /\ v.t = "string"
  /\ Len(v.s) > 0
  /\ Len(v.s) % 2 = 0
  /\ \A i \in 1..Len(v.s) : \E d \in 1..16 : CharAt(v.s, i) = CharAt(HexDigits, d)

\* C6 as stated (shape of hash.value): a candidate whose hash.value is absent
\* or is not shaped like a digest is rejected as a missing hash, without any
\* digest being computed
C6_ShapeChecked ==
  (vpc = "done" /\ ~DigestShaped(Get(Get(cand, "hash"), "value")))
    => (result = MissingResult /\ digestCalls = 0)

\* JavaScript's falsy values
Falsy(v) ==
  \/ v.t \in {"null", "undefined"}
  \/ v = Str("")
  \/ v = Bool(FALSE)
  \/ v.t = "number" /\ (v.s = "NaN" \/ (v.n = 0 /\ v.s \in {"", "-0"}))

\* C6 (missing hash, as the code has it): the candidate is rejected with
\* reason 'Missing hash' and without any digest exactly when the candidate,
\* its hash or its hash.value is falsy; any other hash.value, whatever its
\* shape, is compared with a digest that is computed
C6_MissingHash ==
  vpc = "done" =>
    IF Falsy(cand) \/ Falsy(Get(cand, "hash")) \/ Falsy(Get(Get(cand, "hash"), "value"))
    THEN result = MissingResult /\ result.reason = "Missing hash" /\ digestCalls = 0
    ELSE digestCalls = 1 /\ result.reason \in {ReasonVerified, ReasonMismatch}

\* a receipt whose hash.value was emptied has been rejected
C6_Witness ==
  /\ vpc = "done"
  /\ origin = "edited"
  /\ HasKey(Get(cand, "hash"), "value")
  /\ Get(Get(cand, "hash"), "value") = Str("")
  /\ result = MissingResult
  /\ digestCalls = 0

ReceiptFields ==
  {"schema", "createdAt", "app", "dataset", "mode", "items", "filters", "hash", "receiptId"}

\* C9 (dataset provenance never aborts a build): once the fetch, the body
\* read or the digest of the dataset has failed, the build goes on with the
\* sentinel "unavailable" and returns a receipt that has every field and
\* verifies; a build is rejected only for an item list that cannot be mapped
C9_NeverAborts ==
  /\ dsFailed => pc \in {"digest", "returned", "rejected"}
  /\ (dsFailed /\ pc \in {"digest", "returned"}) => IndexHashOf(payload) = Str("unavailable")
  /\ (dsFailed /\ JustReturned) =>
       /\ \A k \in ReceiptFields : HasKey(receipt, k)
       /\ IndexHashOf(receipt) = Str("unavailable")
       /\ VerifyOutcome(receipt).valid
  /\ pc = "rejected" => ~ItemsMappable(Default(Get(options, "items"), Arr(<<>>)))

\* a receipt has been returned although the digest of the dataset, whose
\* body had been read, failed
C9_Witness ==
  /\ pc = "returned"
  /\ dsFailed
  /\ dsBody = "[]"
  /\ IndexHashOf(receipt) = Str("unavailable")

\* C10 (the fetch cannot block a build): a build that waits for the dataset
\* eventually completes, whether or not the fetch ever responds
C10_FetchNeverBlocks == (pc = "fetch") ~> (pc \in {"returned", "rejected"})

\* C11: whenever location.hash starts with "#r=", the receipt that
\* getReceiptFromURL returns to its caller has been handed to verifyReceipt
\* before it is returned
C11_VerifiedBeforeReturn ==
  (origin = "loaded" /\ StartsWith(locationHash, "#r=") /\ ~decodeFailed)
    => vpc = "done"

\* the fields createReceipt gives every payload
RequiredFields == {"schema", "createdAt", "app", "dataset", "mode", "items", "filters"}

\* a candidate that is not a receipt: not an object, or with a hash that is
\* not an object, or without one of the required fields
Malformed(c) ==
  \/ c.t # "object"
  \/ Get(c, "hash").t # "object"
  \/ \E k \in RequiredFields : ~HasKey(c, k)

\* C12: for every malformed candidate verifyReceipt settles (it throws
\* nothing) with valid = false
C12_MalformedInvalid ==
  (vpc = "done" /\ Malformed(cand)) => ~result.valid

\* C13: a receipt returned by a build whose caller changed the filters
\* object or an item it had passed, during an await of the build or after its
\* return, still verifies valid = true
C13_BuildOwnsItsCopy ==
  (vpc = "done" /\ origin = "built" /\ changedAt # "") => result.valid

\* the characters of A-Z and 0-9
IdAlphabet == {CharAt(IdChars, k) : k \in 1..Len(IdChars)}

\* C14: every identifier generateReceiptID returns is "SS-" followed by 3
\* groups of exactly 4 characters of A-Z, 0-9, separated by "-"
C14_IdentifierShape ==
  pStage = "id" =>
    /\ Len(IdChars) = 36
    /\ Len(pText) = 3 + Segments * SegmentLength + (Segments - 1)
    /\ SubSeq(pText, 1, 3) = "SS-"
    /\ \A g \in 1..Segments :
         /\ \A j \in 1..SegmentLength :
              CharAt(pText, 3 + (g - 1) * (SegmentLength + 1) + j) \in IdAlphabet
         /\ g > 1 => CharAt(pText, 3 + (g - 1) * (SegmentLength + 1)) = "-"

\* the largest outcome of the random source, twelve times: the last symbol
C14_Witness ==
  /\ pStage = "id"
  /\ \A i \in 1..Len(pRand) : pRand[i] = RandDen - 1
  /\ pText = "SS-9999-9999-9999"

InsideString(text, i) ==
  Cardinality({j \in 1..(i - 1) :
                 CharAt(text, j) = "\"" /\ BackslashesBefore(text, j) % 2 = 0}) % 2 = 1

\* C16 as stated: the canonical text holds no space, tab or newline, whatever
\* the input
C16_NoWhitespace ==
  pStage \in {"value", "permuted"} =>
    \A i \in 1..Len(pText) : CharAt(pText, i) \notin {" ", "\t", "\n"}

\* C16 amended: the canonical text holds no tab, newline or carriage return
\* at all (inside strings and keys they are written as escapes), and a space
\* only inside a string or a key, where the input has it
C16_NoInsignificantWhitespace ==
  pStage \in {"value", "permuted"} =>
    /\ pText = canonicalStringify(pOut)
    /\ \A i \in 1..Len(pText) :
         /\ CharAt(pText, i) \notin {"\t", "\n", "\r", "\f"}
         /\ CharAt(pText, i) = " " => InsideString(pText, i)

\* a value whose keys and strings hold spaces, tabs and newlines has been
\* serialized: the spaces are in the text, the tab as an escape
C16_Witness ==
  /\ pStage = "permuted"
  /\ pIn = WhitespaceFilters
  /\ \E i \in 1..Len(pText) : CharAt(pText, i) = " " /\ InsideString(pText, i)
  /\ \E i \in 1..(Len(pText) - 1) : SubSeq(pText, i, i + 1) = "\\t"

\* A-Z, a-z, 0-9, '-' and '_'
UrlSafeAlphabet ==
  LET text == "ABCDEFGHIJKLMNOPQRSTUVWXYZabcdefghijklmnopqrstuvwxyz0123456789-_"
  IN  {CharAt(text, k) : k \in 1..Len(text)}

\* C17: the text produced by encodeReceiptToFragment (and by its
\* byte-to-text half, for every length of input) holds only characters of
\* the URL-safe alphabet
C17_UrlSafeAlphabet ==
  pStage \in {"bytes encoded", "receipt encoded"} =>
    \A i \in 1..Len(pText) : CharAt(pText, i) \in UrlSafeAlphabet

\* two bytes whose base64 form is "+/8=": all three replacements acted
C17_Witness ==
  /\ pStage = "bytes encoded"
  /\ pBytes = <<251, 255>>
  /\ Btoa(pBytes) = "+/8="
  /\ pText = "-_8"

NonFinite(v) == v.t = "number" /\ ~IsFinite(v)

\* the value found in parsed, the parse of the canonical text of orig, at the
\* place of the member of orig at path
RECURSIVE RenderedAt(_, _, _)
RenderedAt(orig, parsed, path) ==
  IF path = <<>> THEN parsed
  ELSE LET member == orig.xs[Head(path)]
       IN  RenderedAt(member.v,
                      IF orig.t = "object" THEN Get(parsed, member.k)
                      ELSE parsed.xs[Head(path)].v,
                      Tail(path))

\* C18: the canonical text of a structure that holds a number that is not
\* finite, at the top level, in an array or in a mapping, is produced (it is
\* a JSON text) and has null at the place of that number
C18_NonFiniteAsNull ==
  pStage \in {"value", "permuted"} =>
    /\ pText = canonicalStringify(pOut)
    /\ ~JsonParseThrows(pText)
    /\ \A path \in Paths(pOut) :
         NonFinite(ValueAt(pOut, path)) =>
           RenderedAt(pOut, JsonParse(pText), path) = Null

\* a mapping with an infinite value, a not-a-number value and an array
\* holding an infinite element has been serialized
C18_Witness ==
  /\ pStage = "permuted"
  /\ \E path \in Paths(pOut) : Len(path) = 1 /\ ValueAt(pOut, path) = NegInfinity
  /\ \E path \in Paths(pOut) : Len(path) = 1 /\ ValueAt(pOut, path) = NaN
  /\ \E path \in Paths(pOut) : Len(path) = 2 /\ ValueAt(pOut, path) = Infinity
  /\ pText = "{\"all\":[null,2],\"avg\":null,\"max\":null,\"min\":0}"

\* the objects reachable from the objects of S in at most k steps
RECURSIVE ReachableFrom(_, _, _)
ReachableFrom(g, S, k) ==
  IF k = 0 THEN S
  ELSE ReachableFrom(g, S \cup UNION {{g[n].kids[i] : i \in 1..Len(g[n].kids)} : n \in S}, k - 1)

\* some object of g is reachable from one of its own members
Cyclic(g) ==
  \E n \in 1..Len(g) :
    n \in ReachableFrom(g, {g[n].kids[i] : i \in 1..Len(g[n].kids)}, Len(g))

\* C19: on an acyclic input the serializer returns, and on a cyclic input it
\* detects the cycle and fails at once: its calls never nest deeper than the
\* input has objects, and it never runs into the limit of the call stack
C19_CycleFailsFast ==
  /\ ~Cyclic(graph) => walkPc # "RangeError"
  /\ Cyclic(graph) => (Len(callStack) <= Len(graph) + 1 /\ walkPc # "RangeError")

\* C20: a receipt returned by createReceipt, encoded by
\* encodeReceiptToFragment and decoded from the undamaged fragment by
\* decodeReceiptFromFragment, verifies valid = true
C20_TransportKeepsIntegrity ==
  (vpc = "done" /\ origin = "received" /\ damage = "none") => result.valid

(***************************************************************************)
(* C21: suspension points of the builder and of the verifier               *)
(***************************************************************************)

\* createReceipt was given a datasetUrl it acts on (receipt.js:123)
HasDatasetUrl == Truthy(Default(Get(options, "datasetUrl"), Null))

C22_IndexHashHexOrUnavailable ==
  JustReturned =>
    \/ DigestShaped(IndexHashOf(receipt))
    \/ IndexHashOf(receipt) = Str(SentinelUnavailable)

(***************************************************************************)
(* C23: the items of a built receipt                                       *)
(***************************************************************************)

MaxItems == 2

\* what a caller passes as an item: an identifier, a record with an
\* identifier, records whose identifier is the empty string or the number 0
ItemKinds ==
  { Str("id-2"),
    ItemRecord,
    Obj(<<Member("id", Str("")), Member("title", Str("Untitled"))>>),
    Obj(<<Member("id", Num(0)), Member("title", Str("Meditations"))>>) }

ItemLists ==
  UNION { {Arr(f) : f \in [1..n -> ItemKinds]} : n \in 0..MaxItems }

ItemOptionCases ==
  { Obj(<<Member("mode", Str(mode)), Member("items", items)>>) :
      mode \in {"shelf", "view"}, items \in ItemLists }

ItemsNext ==
  \/ \E opts \in ItemOptionCases : CreateReceipt(opts)
  \/ \E rand \in RandomStreams : PayloadDigestResolves(rand)

ItemsSpec == Init /\ [][ItemsNext]_vars

\* C23: the items of a built receipt are the input items in order, each record
\* replaced by its identifier and each identifier kept, also for records whose
\* identifier is the empty string or 0
C23_ItemsAreIdentifiers ==
  pc = "returned" =>
    LET in == Get(options, "items").xs
        out == Get(receipt, "items").xs
    IN  /\ Len(out) = Len(in)
        /\ \A i \in 1..Len(in) :
              out[i].v = (IF in[i].v.t = "object" THEN Get(in[i].v, "id") ELSE in[i].v)

(***************************************************************************)
(* C24: values of an unsupported type given to the serializer              *)
(***************************************************************************)

TypeLeaves == {Null, Bool(TRUE), Bool(FALSE), Num(1), Str("a"), Fn, Sym}

\* a value of each type on its own, as an array element and as a mapping value
TypeValues ==
  TypeLeaves
    \cup {Arr(<<a, b>>) : a \in TypeLeaves, b \in TypeLeaves}
    \cup {Obj(<<Member("k", a)>>) : a \in TypeLeaves}

TypeInit ==
  /\ ProgramInit
  /\ pStage = "given"
  /\ pIn \in TypeValues
  /\ pOut = Undefined
  /\ pText = ""
  /\ pBytes = <<>>
  /\ pBack = <<>>
  /\ pRand = <<>>

\* canonicalStringify(pIn) runs to its end: no statement of it throws
SerializeValue ==
  /\ pStage = "given"
  /\ pText' = canonicalStringify(pIn)
  /\ pStage' = "serialized"
  /\ UNCHANGED <<builderVars, candVars, transportVars, verifierVars, hostVars, walkVars,
                 pRand, pIn, pOut, pBytes, pBack>>

TypeNext == SerializeValue

TypeSpec == TypeInit /\ [][TypeNext]_vars

\* v is, or holds somewhere, a function or a symbol
HoldsUnsupported(v) ==
  \E path \in Paths(v) : ValueAt(v, path).t \in {"function", "symbol"}

\* C24: the serializer produces no output for a value that is or holds a
\* value of an unsupported type (a function, a symbol): it fails instead
C24_UnsupportedFailsLoudly ==
  ~(pStage = "serialized" /\ HoldsUnsupported(pIn))

(***************************************************************************)
(* C25: a receipt carried in the hash of a URL                             *)
(***************************************************************************)

\* C25, round trip: the receipt read from a share URL made of "#r=" and the
\* encoded receipt equals the receipt that was encoded
C25_RoundTrip ==
  (origin = "loaded" /\ damage = "none" /\ StartsWith(locationHash, "#r="))
    => urlReceipt = receipt

\* C25, refusal: getReceiptFromURL returns null exactly when the hash is
\* empty, does not start with "#r=", or its fragment does not decode
C25_NullExactlyWhenUnreadable ==
  origin = "loaded" =>
    (urlReceipt = Null <=>
       \/ locationHash = ""
       \/ ~StartsWith(locationHash, "#r=")
       \/ decodeFailed)

\* C25: URL transport round trip and refusal
C25_UrlRoundTrip == C25_RoundTrip /\ C25_NullExactlyWhenUnreadable

(***************************************************************************)
(* SearchState and debounce                                                *)
(***************************************************************************)

\* the wait of the debounced notification, in milliseconds
DebounceWait == 300

\* the step of the clock: calls are made at multiples of it
Granule == DebounceWait \div 3

MaxNow == 400

MaxCalls == 2

MaxListenerCalls == 3

\* the white space String.prototype.trim removes, as far as the texts below hold it
WhiteSpace == {" ", "\t", "\n", "\r"}

\* String.prototype.trim
Trim(s) ==
  LET kept == {i \in 1..Len(s) : CharAt(s, i) \notin WhiteSpace}
  IN  IF kept = {} THEN ""
      ELSE SubSeq(s, CHOOSE i \in kept : \A j \in kept : i <= j,
                     CHOOSE i \in kept : \A j \in kept : i >= j)

\* String.prototype.toLowerCase, on the letters A-Z
ToLowerCase(s) ==
  Join([i \in 1..Len(s) |->
          LET upper == {k \in 1..26 : CharAt(AsciiLo, 33 + k) = CharAt(s, i)}
          IN  IF upper = {} THEN CharAt(s, i)
              ELSE CharAt(AsciiHi, CHOOSE k \in upper : TRUE)], 1, Len(s))

\* the query if setQuery did not trim it
LowerCaseOnly(text) == ToLowerCase(text)

\* query.trim().toLowerCase()
NormalizeQuery(text) == ToLowerCase(Trim(text))

\* what is typed into the search box
SearchTexts == {" Sea", "LABOR\t"}

\* the callbacks that views register
Callbacks == {"render", "count"}

Event(kind, text, flag, to) == [kind |-> kind, text |-> text, flag |-> flag, at |-> time, to |-> to]

\* notify(): each listener is called with this.query, in insertion order
\* (flag: the call came from the timer)
Notification(q, debounced) == Event("notify", q, debounced, listeners)

CountOf(kinds) == Cardinality({i \in 1..Len(trace) : trace[i].kind \in kinds})

\* no timer of the page is due: the page runs the callback of a timer at the
\* time it is due, before it handles what comes after
NoTimerDue == \A t \in timers : t.due > time

\* the timers if debounce cleared none
ClearNothing(ts, id) == ts

\* clearTimeout(id) on the timers ts (no effect for an id that is not pending)
ClearTimeout(ts, id) == {t \in ts : t.id # id}

\* setQuery(query, immediate)
SetQuery(text, immediate) ==
  /\ CountOf({"setQuery"}) < MaxCalls
  /\ NoTimerDue
  /\ query' = NormalizeQuery(text)
  /\ IF immediate
     THEN /\ trace' = trace \o <<Event("setQuery", text, TRUE, <<>>),
                                 Notification(query', FALSE)>>
          /\ UNCHANGED <<debouncedNotify, timeout, timers, nextTimer>>
     ELSE /\ debouncedNotify' = TRUE
          /\ timers' = ClearTimeout(timers, timeout)
                         \cup {[id |-> nextTimer, due |-> time + DebounceWait]}
          /\ timeout' = nextTimer
          /\ nextTimer' = nextTimer + 1
          /\ trace' = Append(trace, Event("setQuery", text, FALSE, <<>>))
  /\ UNCHANGED <<time, listeners>>
  /\ UNCHANGED <<builderVars, candVars, transportVars, verifierVars, pureVars,
                 locationHash, urlReceipt, changedAt, paletteVars>>

\* clear()
ClearQuery == SetQuery("", TRUE)

\* addListener(callback): Set.prototype.add
AddListener(callback) ==
  /\ CountOf({"addListener", "removeListener"}) < MaxListenerCalls
  /\ NoTimerDue
  /\ \A i \in 1..Len(listeners) : listeners[i] # callback
  /\ listeners' = Append(listeners, callback)
  /\ trace' = Append(trace, Event("addListener", callback, FALSE, <<>>))
  /\ UNCHANGED <<time, query, debouncedNotify, timeout, timers, nextTimer>>
  /\ UNCHANGED <<builderVars, candVars, transportVars, verifierVars, pureVars,
                 locationHash, urlReceipt, changedAt, paletteVars>>

\* removeListener that leaves the set as it is
KeepListener(callback) ==
  /\ CountOf({"addListener", "removeListener"}) < MaxListenerCalls
  /\ NoTimerDue
  /\ \E i \in 1..Len(listeners) : listeners[i] = callback
  /\ trace' = Append(trace, Event("removeListener", callback, FALSE, <<>>))
  /\ UNCHANGED <<time, query, listeners, debouncedNotify, timeout, timers, nextTimer>>
  /\ UNCHANGED <<builderVars, candVars, transportVars, verifierVars, pureVars,
                 locationHash, urlReceipt, changedAt, paletteVars>>

\* removeListener(callback): Set.prototype.delete
RemoveListener(callback) ==
  /\ CountOf({"addListener", "removeListener"}) < MaxListenerCalls
  /\ NoTimerDue
  /\ \E i \in 1..Len(listeners) : listeners[i] = callback
  /\ listeners' = SelectSeq(listeners, LAMBDA l : l # callback)
  /\ trace' = Append(trace, Event("removeListener", callback, FALSE, <<>>))
  /\ UNCHANGED <<time, query, debouncedNotify, timeout, timers, nextTimer>>
  /\ UNCHANGED <<builderVars, candVars, transportVars, verifierVars, pureVars,
                 locationHash, urlReceipt, changedAt, paletteVars>>

\* a timer set by debounce is due: later() clears the timer of the closure
\* and calls notify()
TimerFires ==
  /\ \E t \in timers :
       /\ t.due <= time
       /\ timers' = ClearTimeout(timers \ {t}, timeout)
  /\ trace' = Append(trace, Notification(query, TRUE))
  /\ UNCHANGED <<time, query, listeners, debouncedNotify, timeout, nextTimer>>
  /\ UNCHANGED <<builderVars, candVars, transportVars, verifierVars, pureVars,
                 locationHash, urlReceipt, changedAt, paletteVars>>

\* time passes
TimePasses ==
  /\ time + Granule <= MaxNow
  /\ NoTimerDue
  /\ time' = time + Granule
  /\ UNCHANGED <<query, listeners, debouncedNotify, timeout, timers, nextTimer, trace>>
  /\ UNCHANGED <<builderVars, candVars, transportVars, verifierVars, pureVars,
                 locationHash, urlReceipt, changedAt, paletteVars>>

\* typing, with views that register and stay registered
SearchNext ==
  \/ \E text \in SearchTexts : \E immediate \in BOOLEAN : SetQuery(text, immediate)
  \/ ClearQuery
  \/ \E callback \in Callbacks : AddListener(callback)
  \/ TimerFires
  \/ TimePasses

SearchSpec == Init /\ [][SearchNext]_vars

\* views that register and unregister around debounced notifications
ListenerNext ==
  \/ SetQuery(" Sea", FALSE)
  \/ \E callback \in Callbacks : AddListener(callback)
  \/ \E callback \in Callbacks : RemoveListener(callback)
  \/ TimerFires
  \/ TimePasses

ListenerSpec == Init /\ [][ListenerNext]_vars

\* getQuery()
getQuery == query

\* isActive()
isActive == Len(query) > 0

(***************************************************************************)
(* C26: the debounced notification of a burst                              *)
(***************************************************************************)

Events == 1..Len(trace)

IsCall(i) == trace[i].kind = "setQuery"

Debounced(i) == IsCall(i) /\ ~trace[i].flag

IsNotification(i) == trace[i].kind = "notify"

\* call j follows call i in a burst: both are debounced, no debounced call
\* lies between them and j comes less than the wait after i
NextInBurst(i, j) ==
  /\ i < j
  /\ Debounced(i)
  /\ Debounced(j)
  /\ trace[j].at - trace[i].at < DebounceWait
  /\ \A k \in Events : (i < k /\ k < j) => ~Debounced(k)

\* event k is the notification that an immediate setQuery makes itself
OfImmediateCall(k) ==
  /\ IsNotification(k)
  /\ ~trace[k].flag
  /\ k > 1
  /\ IsCall(k - 1)
  /\ trace[k - 1].flag

\* the notifications the timer made after call i and before the next
\* debounced call
TimerNotificationsAfter(i) ==
  {k \in Events : /\ k > i
                  /\ IsNotification(k)
                  /\ trace[k].flag
                  /\ \A j \in Events : (i < j /\ j < k) => ~Debounced(j)}

\* C26: within a burst of debounced setQuery calls no listener is notified
\* (other than by an immediate setQuery made meanwhile, for itself);
\* after its last call there is one notification, the wait after that call,
\* which calls each listener once; no two timers are pending at a time
C26_DebouncedOnce ==
  /\ Cardinality(timers) <= 1
  /\ \A i, j \in Events :
       NextInBurst(i, j) =>
         \A k \in Events : (i < k /\ k < j /\ IsNotification(k)) => OfImmediateCall(k)
  /\ \A i \in Events :
       (Debounced(i) /\ \A j \in Events : ~NextInBurst(i, j))
         => /\ \A k \in TimerNotificationsAfter(i) :
                  /\ trace[k].at = trace[i].at + DebounceWait
                  /\ \A a, b \in 1..Len(trace[k].to) :
                       trace[k].to[a] = trace[k].to[b] => a = b
            /\ Cardinality(TimerNotificationsAfter(i)) <= 1
            /\ time > trace[i].at + DebounceWait
                 => Cardinality(TimerNotificationsAfter(i)) = 1

\* a burst of two debounced calls has been followed by its one notification,
\* made to two listeners
C26_Witness ==
  /\ \E i, j \in Events : NextInBurst(i, j) /\ TimerNotificationsAfter(j) # {}
  /\ Len(listeners) = 2

(***************************************************************************)
(* C27: an immediate setQuery and the timer of an earlier call             *)
(***************************************************************************)

\* C27: an immediate setQuery (clear() is one) notifies every listener once
\* for that call, and nothing is notified after it until the next setQuery
C27_ImmediateIsFinal ==
  \A i \in Events :
    (IsCall(i) /\ trace[i].flag)
      => /\ IsNotification(i + 1)
         /\ ~trace[i + 1].flag
         /\ \A k \in Events :
              (k > i + 1 /\ IsNotification(k)) => \E j \in Events : i < j /\ j < k /\ IsCall(j)

(***************************************************************************)
(* C28: the query a notification carries                                   *)
(***************************************************************************)

\* the text of the last setQuery before event k ("" when there is none: the
\* query of the constructor)
LastTextBefore(k) ==
  LET calls == {j \in Events : j < k /\ IsCall(j)}
  IN  IF calls = {} THEN ""
      ELSE trace[CHOOSE j \in calls : \A l \in calls : l <= j].text

\* the texts of the calls, trimmed and lower-cased
TrimmedLowerCase == [text \in SearchTexts \cup {""} |-> ToLowerCase(Trim(text))]

\* C28: each notification carries the trimmed, lower-cased text of the last
\* setQuery made before it, which is what getQuery() returns at that moment,
\* and isActive() holds exactly when that query is not empty
C28_NotifiesCurrentQuery ==
  /\ \A k \in Events :
       IsNotification(k) => trace[k].text = TrimmedLowerCase[LastTextBefore(k)]
  /\ getQuery = TrimmedLowerCase[LastTextBefore(Len(trace) + 1)]
  /\ isActive <=> (getQuery # "")

\* the timer of an earlier call has notified the query of a later call, and
\* the query is not empty
C28_Witness ==
  /\ \E k \in Events :
       /\ IsNotification(k)
       /\ trace[k].flag
       /\ trace[k].to # <<>>
       /\ \E i, j \in Events :
            /\ i < j /\ j < k
            /\ Debounced(i)
            /\ IsCall(j)
            /\ TrimmedLowerCase[trace[i].text] # TrimmedLowerCase[trace[j].text]
            /\ trace[k].text = TrimmedLowerCase[trace[j].text]
  /\ isActive

(***************************************************************************)
(* C29: listeners removed or added while a timer is pending                *)
(***************************************************************************)

\* callback is registered when event k happens: its last addListener or
\* removeListener before k is an addListener
RegisteredBefore(callback, k) ==
  LET ops == {j \in Events : /\ j < k
                             /\ trace[j].kind \in {"addListener", "removeListener"}
                             /\ trace[j].text = callback}
  IN  /\ ops # {}
      /\ trace[CHOOSE j \in ops : \A l \in ops : l <= j].kind = "addListener"

Called(callback, k) == \E a \in 1..Len(trace[k].to) : trace[k].to[a] = callback

\* C29: a notification calls exactly the listeners registered when it is
\* made: none that was removed before it, even if its timer was set before
\* the removal, and each that was added before it, even if its timer was set
\* before the addition
C29_RemovedNeverCalled ==
  \A k \in Events :
    IsNotification(k) =>
      \A callback \in Callbacks : Called(callback, k) <=> RegisteredBefore(callback, k)

\* the timer of a call has notified after a listener was removed and another
\* added while it was pending
C29_Witness ==
  \E i, r, a, k \in Events :
    /\ Debounced(i)
    /\ i < r /\ i < a /\ r < k /\ a < k
    /\ trace[r].kind = "removeListener"
    /\ trace[a].kind = "addListener"
    /\ IsNotification(k)
    /\ trace[k].flag
    /\ ~Called(trace[r].text, k)
    /\ Called(trace[a].text, k)

(***************************************************************************)
(* The palette preference                                                  *)
(***************************************************************************)

MaxPaletteCalls == 3

\* the keys of PALETTES
PaletteKeys == {"default", "colorblind"}

\* properties every object literal inherits from Object.prototype
InheritedKeys ==
  {"constructor", "toString", "valueOf", "hasOwnProperty", "isPrototypeOf",
   "toLocaleString", "__proto__"}

\* PALETTES[key] is truthy: an own property (a palette) or an inherited one
\* (a function, or the prototype itself)
PalettesHas(key) == key \in PaletteKeys \cup InheritedKeys

\* the keys a caller passes, and the texts found in the storage
KeyStrings == {"default", "colorblind", "", "Default", "high-contrast", "constructor", "__proto__"}

StoredValues == {Null} \cup {Str(key) : key \in KeyStrings}

PaletteInit ==
  /\ ModuleInit
  /\ PureIdle
  /\ stored \in StoredValues

\* getActivePalette()
GetActivePalette ==
  /\ Len(paletteCalls) < MaxPaletteCalls
  /\ paletteCalls' = Append(paletteCalls,
       [call |-> "getActivePalette", arg |-> "",
        returned |-> IF Truthy(stored) /\ PalettesHas(stored.s) THEN stored.s ELSE "default"])
  /\ UNCHANGED stored
  /\ UNCHANGED <<builderVars, candVars, transportVars, verifierVars, pureVars,
                 locationHash, urlReceipt, changedAt, searchVars>>

\* setActivePalette(paletteKey)
SetActivePalette(paletteKey) ==
  /\ Len(paletteCalls) < MaxPaletteCalls
  /\ LET key == IF ~PalettesHas(paletteKey) THEN "default" ELSE paletteKey
     IN  /\ stored' = Str(key)
         /\ paletteCalls' = Append(paletteCalls,
              [call |-> "setActivePalette", arg |-> paletteKey, returned |-> key])
  /\ UNCHANGED <<builderVars, candVars, transportVars, verifierVars, pureVars,
                 locationHash, urlReceipt, changedAt, searchVars>>

PaletteNext ==
  \/ GetActivePalette
  \/ \E paletteKey \in KeyStrings : SetActivePalette(paletteKey)

PaletteSpec == PaletteInit /\ [][PaletteNext]_vars

(***************************************************************************)
(* C30: the palette preference                                             *)
(***************************************************************************)

\* C30: once setActivePalette has been called the stored preference is the
\* key of a defined palette; getActivePalette always returns the key of a
\* defined palette; setActivePalette(k) followed by getActivePalette returns
\* k when k is a defined palette and "default" otherwise
C30_PalettePreference ==
  /\ (\E i \in 1..Len(paletteCalls) : paletteCalls[i].call = "setActivePalette")
       => (stored.t = "string" /\ stored.s \in PaletteKeys)
  /\ \A i \in 1..Len(paletteCalls) :
       paletteCalls[i].call = "getActivePalette"
         => /\ paletteCalls[i].returned \in PaletteKeys
            /\ (i > 1 /\ paletteCalls[i - 1].call = "setActivePalette")
                 => paletteCalls[i].returned =
                      (IF paletteCalls[i - 1].arg \in PaletteKeys
                       THEN paletteCalls[i - 1].arg ELSE "default")

====
